---- MODULE Spec2Model ----
(***************************************************************************)
(* Order-status reconciliation of the mobile-cover backend: the Shiprocket *)
(* shipment controller (createShipment, assignCourier, cancelShipment,     *)
(* handleWebhook), the automatic shipment helper (createAutoShipment) and  *)
(* the Razorpay payment webhook (razorpayWebhook and its event handlers).  *)
(* Every action is one complete request handler: it reads the order        *)
(* documents, mutates one of them, saves it and writes the HTTP response.  *)
(***************************************************************************)
EXTENDS Integers, Sequences, FiniteSets, TLC

VARIABLES
    orders,           \* the Order and CustomOrder collections: order id -> document
    processedEvents,  \* paymentController's in-memory ledger: event key -> Date.now()
    createOrderCalls, \* calls of shiprocketService.createOrder that returned success, per order
    env,              \* process.env: the configured webhook secrets
    now,              \* Date.now(), in ticks of the clock
    response,         \* what the last handler answered (res.status(..).json(..) or its return value)
    inflight,         \* the requests suspended at an await: request -> where it stands
    service           \* the ShiprocketService call in progress: its attempts and its outcome

vars == <<orders, processedEvents, createOrderCalls, env, now, response, inflight, service>>

(***************************************************************************)
(* Bounds of the model.                                                    *)
(***************************************************************************)
MaxTime == 1        \* the clock runs from 0 to MaxTime
MaxHistory == 3     \* webhook history entries held by all orders together
MaxCreateOrders == 2  \* successful createOrder calls, all orders together
MaxLedger == 2       \* event keys held by processedEvents
MaxClock == 26       \* the hours the clock of the ledger specification runs
MaxRequests == 2     \* requests in flight at the same time

None == "<undefined>"   \* JavaScript's undefined / null (both falsy)
Absent == [absent |-> TRUE]   \* undefined, where an object is expected

\* no call of the ShiprocketService is in progress
NoCall == [op |-> "none", stage |-> "idle", retryCount |-> 0, attempts |-> 0,
           trace |-> <<>>, result |-> None, raw |-> 0, weight |-> 0, sent |-> 0]

Requests == 1..MaxRequests

\* a request slot with no request in it
Idle == [stage |-> "idle", event |-> Absent, payload |-> Absent, order |-> None, doc |-> Absent]

Truthy(v) == v # None /\ v # ""

\* new Date(ms), as the timestamp it stores
NewDate(ms) == ToString(ms)

\* JavaScript's a || b
Or(a, b) == IF Truthy(a) THEN a ELSE b

(***************************************************************************)
(* String functions of the JavaScript runtime, computed character by       *)
(* character.                                                              *)
(***************************************************************************)
LowerChar(c) ==
    CASE c = "A" -> "a" [] c = "B" -> "b" [] c = "C" -> "c" [] c = "D" -> "d"
      [] c = "E" -> "e" [] c = "F" -> "f" [] c = "G" -> "g" [] c = "H" -> "h"
      [] c = "I" -> "i" [] c = "J" -> "j" [] c = "K" -> "k" [] c = "L" -> "l"
      [] c = "M" -> "m" [] c = "N" -> "n" [] c = "O" -> "o" [] c = "P" -> "p"
      [] c = "Q" -> "q" [] c = "R" -> "r" [] c = "S" -> "s" [] c = "T" -> "t"
      [] c = "U" -> "u" [] c = "V" -> "v" [] c = "W" -> "w" [] c = "X" -> "x"
      [] c = "Y" -> "y" [] c = "Z" -> "z" [] OTHER -> c

RECURSIVE toLowerCase(_)
toLowerCase(s) ==
    IF Len(s) = 0 THEN ""
    ELSE LowerChar(SubSeq(s, 1, 1)) \o toLowerCase(SubSeq(s, 2, Len(s)))

includes(s, pat) ==
    \E i \in 1..(Len(s) - Len(pat) + 1) : SubSeq(s, i, i + Len(pat) - 1) = pat

startsWith(s, prefix) ==
    Len(s) >= Len(prefix) /\ SubSeq(s, 1, Len(prefix)) = prefix

\* s.replace(/^(ORD-|CUST-)/, '')
StripOrderPrefix(s) ==
    IF startsWith(s, "ORD-") THEN SubSeq(s, Len("ORD-") + 1, Len(s))
    ELSE IF startsWith(s, "CUST-") THEN SubSeq(s, Len("CUST-") + 1, Len(s))
    ELSE s

(***************************************************************************)
(* The two collections.  Order ids are MongoDB ObjectIds.                  *)
(***************************************************************************)
RegularId == "aaaaaaaaaaaaaaaaaaaaaaa1"
CustomId == "bbbbbbbbbbbbbbbbbbbbbbb2"
UnknownId == "ccccccccccccccccccccccc3"

RegularOrders == {RegularId}     \* documents of the Order collection
CustomOrders == {CustomId}       \* documents of the CustomOrder collection
OrderIds == RegularOrders \cup CustomOrders

ObjectIdLength == 24

IsHexChar(c) ==
    c \in {"0", "1", "2", "3", "4", "5", "6", "7", "8", "9",
           "a", "b", "c", "d", "e", "f", "A", "B", "C", "D", "E", "F"}

\* orderId.match(/^[a-f0-9]{24}$/i)
IsObjectId(id) ==
    /\ Len(id) = ObjectIdLength
    /\ \A i \in 1..Len(id) : IsHexChar(SubSeq(id, i, i))

Collection(orderType) == IF orderType = "custom" THEN CustomOrders ELSE RegularOrders

\* Model.findById(id): the document, or None
findById(coll, id) == IF id \in coll THEN id ELSE None

\* Model.findOne({'shiprocket.awbCode': awb}): a document of the collection
\* whose stored AWB equals the queried one
AwbMatches(coll, awb) ==
    {o \in coll : orders[o].shiprocket # Absent /\ orders[o].shiprocket.awbCode = awb}

findOneByAwb(coll, awb) ==
    IF AwbMatches(coll, awb) = {} THEN None ELSE CHOOSE o \in AwbMatches(coll, awb) : TRUE

(***************************************************************************)
(* Documents.                                                              *)
(***************************************************************************)
NewPayment(o) ==
    [razorpayOrderId |-> "order_" \o o, razorpayPaymentId |-> None,
     status |-> "pending", paidAt |-> None]

\* the shipping address entered at checkout
ShippingAddressOf(o) ==
    IF o \in CustomOrders
    THEN [address1 |-> "MG Road", postalCode |-> "825418"]
    ELSE [address1 |-> "12 Main St", postalCode |-> "825418"]

\* what an order costs (order.total, or order.price of a custom order), in rupees
OrderTotal == 2

NewOrder(o) ==
    [status |-> "pending", cancellationReason |-> None, notes |-> None,
     total |-> OrderTotal, refundAmount |-> 0, refundStatus |-> "none",
     shippingAddress |-> ShippingAddressOf(o),
     payment |-> NewPayment(o), shiprocket |-> Absent]

\* order.shiprocket = {} followed by the fields the handlers read
EmptyShiprocket ==
    [orderId |-> None, shipmentId |-> None, awbCode |-> None, status |-> None,
     lastSyncedAt |-> None, deliveredDate |-> None, rtoReason |-> None,
     cancellationReason |-> None, trackingData |-> Absent, webhookHistory |-> <<>>]

Res(op, code, success, message, data) ==
    [op |-> op, code |-> code, success |-> success, message |-> message, data |-> data]

NoResponse == Res("none", 0, FALSE, "", Absent)

(***************************************************************************)
(* handleWebhook: POST /api/shiprocket/webhook                             *)
(***************************************************************************)
ShiprocketSecret == "s3cret"

\* const receivedToken = req.headers['x-api-key'] || req.headers['authorization']
receivedToken(headers) == Or(headers.xApiKey, headers.authorization)

\* a 401 guard that accepts the shared secret in either header, whatever the
\* other header carries
TokenRejectedEitherHeader(headers) ==
    /\ Truthy(env.SHIPROCKET_WEBHOOK_SECRET)
    /\ \A t \in {headers.xApiKey, headers.authorization} :
          /\ t # env.SHIPROCKET_WEBHOOK_SECRET
          /\ t # "Bearer " \o env.SHIPROCKET_WEBHOOK_SECRET

\* the 401 guard of handleWebhook
TokenRejected(headers) ==
    /\ Truthy(env.SHIPROCKET_WEBHOOK_SECRET)
    /\ receivedToken(headers) # env.SHIPROCKET_WEBHOOK_SECRET
    /\ receivedToken(headers) # "Bearer " \o env.SHIPROCKET_WEBHOOK_SECRET

\* payload.awb_code || payload.awb ; payload.order_id || payload.reference_number
IsTestWebhook(payload) ==
    \/ ~Truthy(payload.awb_code)
    \/ payload.awb_code = "test"
    \/ payload.order_id = "test"

\* a lookup that settles for the first regular order when nothing matches
LocateOrderOrFirst(payload) ==
    LET byAwb == Or(findOneByAwb(RegularOrders, payload.awb_code),
                    findOneByAwb(CustomOrders, payload.awb_code))
        byRef == IF ~Truthy(payload.order_id) THEN None
                 ELSE IF startsWith(payload.order_id, "CUST-")
                 THEN findById(CustomOrders, StripOrderPrefix(payload.order_id))
                 ELSE findById(RegularOrders, StripOrderPrefix(payload.order_id))
    IN  IF byAwb # None THEN byAwb
        ELSE IF byRef # None THEN byRef
        ELSE CHOOSE o \in RegularOrders : TRUE

\* the order the webhook is about: by AWB in Order, then in CustomOrder, then by
\* the order reference with its ORD- / CUST- prefix stripped
LocateOrder(payload) ==
    LET byAwb == Or(findOneByAwb(RegularOrders, payload.awb_code),
                    findOneByAwb(CustomOrders, payload.awb_code))
    IN  IF byAwb # None THEN byAwb
        ELSE IF Truthy(payload.order_id)
             THEN IF startsWith(payload.order_id, "CUST-")
                  THEN findById(CustomOrders, StripOrderPrefix(payload.order_id))
                  ELSE findById(RegularOrders, StripOrderPrefix(payload.order_id))
             ELSE None

\* the lookup by order reference rejects (a CastError): no order carries the
\* AWB and the reference, its prefix stripped, is no ObjectId
LookupThrows(payload) ==
    /\ Or(findOneByAwb(RegularOrders, payload.awb_code),
          findOneByAwb(CustomOrders, payload.awb_code)) = None
    /\ Truthy(payload.order_id)
    /\ ~IsObjectId(StripOrderPrefix(payload.order_id))

\* Map Shiprocket status to our order status: which arm of the if / else-if
\* chain over statusLower is taken
\* a mapping whose last arm takes every other status for a shipped one
WebhookBranchDefaultShipped(statusLower) ==
    IF includes(statusLower, "delivered") THEN "delivered"
    ELSE IF includes(statusLower, "rto") \/ includes(statusLower, "return") THEN "rto"
    ELSE IF includes(statusLower, "cancelled") THEN "cancelled"
    ELSE "shipped"

\* a mapping that does not know the pattern "out for delivery"
WebhookBranchNoOutForDelivery(statusLower) ==
    IF includes(statusLower, "delivered") THEN "delivered"
    ELSE IF includes(statusLower, "transit") \/ includes(statusLower, "pickup") THEN "shipped"
    ELSE IF includes(statusLower, "rto") \/ includes(statusLower, "return") THEN "rto"
    ELSE IF includes(statusLower, "cancelled") THEN "cancelled"
    ELSE "unmapped"

WebhookBranch(statusLower) ==
    IF includes(statusLower, "delivered") THEN "delivered"
    ELSE IF \/ includes(statusLower, "transit")
            \/ includes(statusLower, "pickup")
            \/ includes(statusLower, "out for delivery") THEN "shipped"
    ELSE IF includes(statusLower, "rto") \/ includes(statusLower, "return") THEN "rto"
    ELSE IF includes(statusLower, "cancelled") THEN "cancelled"
    ELSE "unmapped"

\* the order document after the webhook has been applied and saved
ApplyWebhook(order, payload, t) ==
    LET status == payload.status
        sr0 == IF order.shiprocket = Absent THEN EmptyShiprocket ELSE order.shiprocket
        branch == WebhookBranch(toLowerCase(Or(status, "")))
        sr1 == [sr0 EXCEPT
                  !.status = status,
                  !.lastSyncedAt = NewDate(t),
                  !.deliveredDate =
                      IF branch = "delivered" THEN Or(payload.delivered_date, NewDate(t)) ELSE @,
                  !.rtoReason =
                      IF branch = "rto" THEN Or(payload.reason, "Return to origin") ELSE @,
                  !.webhookHistory = Append(@, [status |-> status, payload |-> payload,
                                                receivedAt |-> NewDate(t)])]
    IN  [order EXCEPT
           !.status = IF branch \in {"delivered", "shipped", "cancelled"} THEN branch ELSE @,
           !.cancellationReason =
               IF branch = "cancelled" THEN Or(payload.reason, "Cancelled by courier") ELSE @,
           !.shiprocket = sr1]

\* the number of webhook history entries stored
RECURSIVE HistoryOf(_)
HistoryOf(os) ==
    IF os = {} THEN 0
    ELSE LET o == CHOOSE x \in os : TRUE
         IN  (IF orders[o].shiprocket = Absent THEN 0
              ELSE Len(orders[o].shiprocket.webhookHistory)) + HistoryOf(os \ {o})

TotalHistory == HistoryOf(OrderIds)

handleWebhook(headers, payload) ==
    IF TokenRejected(headers)
    THEN /\ response' = Res("handleWebhook", 401, FALSE, "Unauthorized", Absent)
         /\ UNCHANGED <<orders, processedEvents, createOrderCalls, env, service, inflight, now>>
    ELSE IF IsTestWebhook(payload)
    THEN /\ response' = Res("handleWebhook", 200, TRUE, "Test webhook acknowledged", Absent)
         /\ UNCHANGED <<orders, processedEvents, createOrderCalls, env, service, inflight, now>>
    ELSE IF LookupThrows(payload)
    THEN /\ response' = Res("handleWebhook", 500, FALSE, "Internal server error", Absent)
         /\ UNCHANGED <<orders, processedEvents, createOrderCalls, env, service, inflight, now>>
    ELSE IF LocateOrder(payload) = None
    THEN /\ response' = Res("handleWebhook", 404, FALSE, "Order not found", Absent)
         /\ UNCHANGED <<orders, processedEvents, createOrderCalls, env, service, inflight, now>>
    ELSE LET o == LocateOrder(payload)
         IN  /\ TotalHistory < MaxHistory
             /\ orders' = [orders EXCEPT ![o] = ApplyWebhook(orders[o], payload, now)]
             /\ response' = Res("handleWebhook", 200, TRUE, "Webhook processed successfully", Absent)
             /\ UNCHANGED <<processedEvents, createOrderCalls, env, service, inflight, now>>


\* handleWebhook up to its await order.save(): the lookups have resolved and the
\* handler holds the document it loaded, with the webhook applied to it
webhookLoad(r, headers, payload) ==
    /\ inflight[r] = Idle
    /\ IF TokenRejected(headers)
       THEN /\ response' = Res("handleWebhook", 401, FALSE, "Unauthorized", Absent)
            /\ UNCHANGED <<orders, processedEvents, createOrderCalls, env, service, inflight, now>>
       ELSE IF IsTestWebhook(payload)
       THEN /\ response' = Res("handleWebhook", 200, TRUE, "Test webhook acknowledged", Absent)
            /\ UNCHANGED <<orders, processedEvents, createOrderCalls, env, service, inflight, now>>
       ELSE IF LookupThrows(payload)
       THEN /\ response' = Res("handleWebhook", 500, FALSE, "Internal server error", Absent)
            /\ UNCHANGED <<orders, processedEvents, createOrderCalls, env, service, inflight, now>>
       ELSE IF LocateOrder(payload) = None
       THEN /\ response' = Res("handleWebhook", 404, FALSE, "Order not found", Absent)
            /\ UNCHANGED <<orders, processedEvents, createOrderCalls, env, service, inflight, now>>
       ELSE LET o == LocateOrder(payload)
            IN  /\ TotalHistory + Cardinality({q \in Requests : inflight[q].stage = "loaded"})
                      < MaxHistory
                /\ inflight' = [inflight EXCEPT ![r] =
                       [Idle EXCEPT !.stage = "loaded", !.payload = payload, !.order = o,
                                    !.doc = ApplyWebhook(orders[o], payload, now)]]
                /\ UNCHANGED <<orders, processedEvents, createOrderCalls, env, service, now, response>>

\* order.save(): the order record is the unit of mutation, the record the
\* caller holds replaces the stored one
save(o, doc) == [orders EXCEPT ![o] = doc]

\* await order.save() and the answer: the document the handler holds is written
webhookSave(r) ==
    /\ inflight[r].stage = "loaded"
    /\ orders' = save(inflight[r].order, inflight[r].doc)
    /\ response' = Res("handleWebhook", 200, TRUE, "Webhook processed successfully", Absent)
    /\ inflight' = [inflight EXCEPT ![r] = Idle]
    /\ UNCHANGED <<processedEvents, createOrderCalls, env, service, now>>

(***************************************************************************)
(* createShipment: POST /api/shiprocket/create-shipment                    *)
(* assignCourier:  POST /api/shiprocket/assign-courier (forwards to it)    *)
(***************************************************************************)
MinAddressLength == 5

\* /\d/.test(s)
HasNumber(s) ==
    \E i \in 1..Len(s) :
        SubSeq(s, i, i) \in {"0", "1", "2", "3", "4", "5", "6", "7", "8", "9"}

AddressValid(a) ==
    Len(a) >= MinAddressLength /\ includes(a, " ") /\ HasNumber(a)

\* the address after the fix attempt: a space, then the postal code or " 1"
FixedAddress(a, postalCode) ==
    LET a1 == IF includes(a, " ") THEN a ELSE a \o " "
    IN  IF HasNumber(a) THEN a1
        ELSE IF Truthy(postalCode) THEN a1 \o " " \o postalCode
        ELSE a1 \o " 1"

\* the address sent to Shiprocket, or None when createShipment answers 400
ShiprocketAddress(order) ==
    LET combined == order.shippingAddress.address1
        fixed == FixedAddress(combined, order.shippingAddress.postalCode)
    IN  IF AddressValid(combined) THEN combined
        ELSE IF AddressValid(fixed) THEN fixed
        ELSE None

\* an existence check that looks at the tracking code alone
ShipmentExistsAwbOnly(order) ==
    /\ order.shiprocket # Absent
    /\ Truthy(order.shiprocket.awbCode)

\* Check if shipment already exists
ShipmentExists(order) ==
    /\ order.shiprocket # Absent
    /\ Truthy(order.shiprocket.shipmentId) \/ Truthy(order.shiprocket.awbCode)

\* what Shiprocket assigns to the n-th adhoc order created for an order
ProviderOrderIdOf(o, n) == "SRO-" \o SubSeq(o, Len(o), Len(o)) \o "-" \o ToString(n)
ShipmentIdOf(o, n) == "SHP-" \o SubSeq(o, Len(o), Len(o)) \o "-" \o ToString(n)
AwbOf(o, n) == "AWB-" \o SubSeq(o, Len(o), Len(o)) \o "-" \o ToString(n)

\* Answers of POST /orders/create/adhoc that ShiprocketService.createOrder turns
\* into { success: true, ... }: the response carries order_id, shipment_id and
\* awb_code ("ids"), no awb_code yet ("noAwb"), or neither shipment_id nor
\* awb_code ("noIds"); "error" is every answer for which createOrder throws.
CreateOrderShapes == {"ids", "noAwb", "noIds", "error"}

\* the value shiprocketService.createOrder(orderData) returns
createOrder(o, n, shape) ==
    [success |-> TRUE,
     orderId |-> ProviderOrderIdOf(o, n),
     shipmentId |-> IF shape \in {"ids", "noAwb"} THEN ShipmentIdOf(o, n) ELSE None,
     awbCode |-> IF shape = "ids" THEN AwbOf(o, n) ELSE None,
     status |-> "success",
     message |-> "Shipment created successfully"]

\* order.shiprocket = { orderId, shipmentId, awbCode, ..., lastSyncedAt: new Date() }
NewShiprocket(r, t) ==
    [EmptyShiprocket EXCEPT
       !.orderId = r.orderId, !.shipmentId = r.shipmentId, !.awbCode = r.awbCode,
       !.status = r.status, !.lastSyncedAt = NewDate(t)]

RECURSIVE CallsOf(_)
CallsOf(os) ==
    IF os = {} THEN 0
    ELSE LET o == CHOOSE x \in os : TRUE IN createOrderCalls[o] + CallsOf(os \ {o})

TotalCreateOrders == CallsOf(OrderIds)

ShipmentData(shipmentId, awbCode) == [shipmentId |-> shipmentId, awbCode |-> awbCode]

Unchanged == UNCHANGED <<orders, processedEvents, createOrderCalls, env, service, inflight, now>>

\* the answer of createShipment for an order that already has a shipment
AlreadyCreated(op, order) ==
    Res(op, 400, FALSE, "Shipment already created for this order",
        ShipmentData(order.shiprocket.shipmentId, order.shiprocket.awbCode))

createShipmentAs(op, body, shape) ==
    IF ~Truthy(body.orderId)
    THEN response' = Res(op, 400, FALSE, "Order ID is required", Absent) /\ Unchanged
    ELSE IF ~IsObjectId(body.orderId)
    THEN response' = Res(op, 400, FALSE, "Invalid Order ID format", Absent) /\ Unchanged
    ELSE IF findById(Collection(body.orderType), body.orderId) = None
    THEN response' = Res(op, 404, FALSE, "Order not found", Absent) /\ Unchanged
    ELSE LET o == body.orderId
             order == orders[o]
             r == createOrder(o, createOrderCalls[o] + 1, shape)
         IN  IF ShipmentExists(order)
             THEN response' = AlreadyCreated(op, order) /\ Unchanged
             ELSE IF ShiprocketAddress(order) = None
             THEN /\ response' = Res(op, 400, FALSE,
                        "Shipping address does not meet Shiprocket requirements", Absent)
                  /\ Unchanged
             ELSE IF shape = "error"
             THEN /\ response' = Res(op, 400, FALSE,
                        "Failed to create shipment in Shiprocket", Absent)
                  /\ Unchanged
             ELSE /\ TotalCreateOrders < MaxCreateOrders
                  /\ createOrderCalls' = [createOrderCalls EXCEPT ![o] = @ + 1]
                  /\ orders' = [orders EXCEPT ![o].shiprocket = NewShiprocket(r, now)]
                  /\ response' = Res(op, 200, TRUE,
                        "Shipment created successfully in Shiprocket",
                        ShipmentData(r.shipmentId, r.awbCode))
                  /\ UNCHANGED <<processedEvents, env, service, inflight, now>>

createShipment(body, shape) == createShipmentAs("createShipment", body, shape)

assignCourier(body, shape) == createShipmentAs("assignCourier", body, shape)

(***************************************************************************)
(* createAutoShipment(orderId, orderType): utils/autoShiprocket.js         *)
(***************************************************************************)
\* the value createAutoShipment returns for an order that already has a shipment
AlreadyExists(order) ==
    Res("createAutoShipment", 0, TRUE, "Shipment already exists",
        ShipmentData(order.shiprocket.shipmentId, order.shiprocket.awbCode))

createAutoShipment(orderId, orderType, shape) ==
    IF findById(Collection(orderType), orderId) = None
    THEN /\ response' = Res("createAutoShipment", 0, FALSE, "Order not found", Absent)
         /\ Unchanged
    ELSE LET o == orderId
             order == orders[o]
             r == createOrder(o, createOrderCalls[o] + 1, shape)
         IN  IF ShipmentExists(order)
             THEN response' = AlreadyExists(order) /\ Unchanged
             ELSE IF shape = "error"
             THEN /\ response' = Res("createAutoShipment", 0, FALSE,
                        "Failed to create automatic shipment", Absent)
                  /\ Unchanged
             ELSE /\ TotalCreateOrders < MaxCreateOrders
                  /\ createOrderCalls' = [createOrderCalls EXCEPT ![o] = @ + 1]
                  /\ orders' = [orders EXCEPT ![o].shiprocket = NewShiprocket(r, now)]
                  /\ response' = Res("createAutoShipment", 0, TRUE,
                        "Automatic shipment created successfully",
                        ShipmentData(r.shipmentId, r.awbCode))
                  /\ UNCHANGED <<processedEvents, env, service, inflight, now>>

\* createShipment, assignCourier and createAutoShipment up to
\* await shiprocketService.createOrder(..): the order is loaded, the existence
\* guard has read the loaded document, the request to the provider is on its way
createBegin(r, op, body, shape) ==
    /\ inflight[r] = Idle
    /\ IF op # "createAutoShipment" /\ ~Truthy(body.orderId)
       THEN response' = Res(op, 400, FALSE, "Order ID is required", Absent) /\ Unchanged
       ELSE IF op # "createAutoShipment" /\ ~IsObjectId(body.orderId)
       THEN response' = Res(op, 400, FALSE, "Invalid Order ID format", Absent) /\ Unchanged
       ELSE IF findById(Collection(body.orderType), body.orderId) = None
       THEN /\ response' = Res(op, IF op = "createAutoShipment" THEN 0 ELSE 404, FALSE,
                               "Order not found", Absent)
            /\ Unchanged
       ELSE LET order == orders[body.orderId]
            IN  IF ShipmentExists(order)
                THEN /\ response' = IF op = "createAutoShipment" THEN AlreadyExists(order)
                                    ELSE AlreadyCreated(op, order)
                     /\ Unchanged
                ELSE IF op # "createAutoShipment" /\ ShiprocketAddress(order) = None
                THEN /\ response' = Res(op, 400, FALSE,
                           "Shipping address does not meet Shiprocket requirements", Absent)
                     /\ Unchanged
                ELSE /\ inflight' = [inflight EXCEPT ![r] =
                            [Idle EXCEPT !.stage = "creating", !.order = body.orderId,
                                         !.doc = order,
                                         !.payload = [op |-> op, shape |-> shape]]]
                     /\ UNCHANGED <<orders, processedEvents, createOrderCalls, env, service, now, response>>

\* the provider has answered: the shipment is stored on the loaded document and
\* the document is saved
createFinish(r) ==
    /\ inflight[r].stage = "creating"
    /\ LET o == inflight[r].order
           op == inflight[r].payload.op
           shape == inflight[r].payload.shape
           auto == op = "createAutoShipment"
           created == createOrder(o, createOrderCalls[o] + 1, shape)
       IN  IF shape = "error"
           THEN /\ response' =
                     IF auto
                     THEN Res(op, 0, FALSE, "Failed to create automatic shipment", Absent)
                     ELSE Res(op, 400, FALSE, "Failed to create shipment in Shiprocket", Absent)
                /\ UNCHANGED <<orders, createOrderCalls>>
           ELSE /\ TotalCreateOrders < MaxCreateOrders
                /\ createOrderCalls' = [createOrderCalls EXCEPT ![o] = @ + 1]
                /\ orders' = save(o, [inflight[r].doc EXCEPT
                                         !.shiprocket = NewShiprocket(created, now)])
                /\ response' =
                     Res(op, IF auto THEN 0 ELSE 200, TRUE,
                         IF auto THEN "Automatic shipment created successfully"
                         ELSE "Shipment created successfully in Shiprocket",
                         ShipmentData(created.shipmentId, created.awbCode))
    /\ inflight' = [inflight EXCEPT ![r] = Idle]
    /\ UNCHANGED <<processedEvents, env, service, now>>

(***************************************************************************)
(* trackShipment: GET /api/shiprocket/track/:identifier                    *)
(***************************************************************************)
\* what shiprocketService.trackShipment does: it throws (ok false), or returns
\* tracking data, without an awb_code when the provider knows no such shipment
TrackOutcome(ok, found, status) == [ok |-> ok, found |-> found, status |-> status]

\* the tracking data the provider returns for an AWB
TrackingDataOf(awbCode, outcome) ==
    [awb_code |-> IF outcome.found THEN awbCode ELSE None, status |-> outcome.status]

\* the arm of trackShipment's status mapping a lower-cased status takes
TrackBranch(currentStatus) ==
    IF includes(currentStatus, "delivered") THEN "delivered"
    ELSE IF \/ includes(currentStatus, "transit")
            \/ includes(currentStatus, "pickup")
            \/ includes(currentStatus, "out for delivery") THEN "shipped"
    ELSE "unmapped"

\* the order document after the tracking data has been applied and saved
ApplyTracking(order, trackingData, t) ==
    LET branch == TrackBranch(toLowerCase(Or(trackingData.status, "")))
    IN  [order EXCEPT
           !.shiprocket.trackingData =
               [currentStatus |-> trackingData.status, statusDateTime |-> NewDate(t)],
           !.shiprocket.lastSyncedAt = NewDate(t),
           !.status = IF branch \in {"delivered", "shipped"} THEN branch ELSE @]

trackShipment(identifier, orderType, outcome) ==
    LET isOrderId == IsObjectId(identifier)
        order == IF isOrderId THEN findById(Collection(orderType), identifier) ELSE None
        awbCode == IF ~isOrderId THEN identifier
                   ELSE IF order = None \/ orders[order].shiprocket = Absent THEN None
                   ELSE orders[order].shiprocket.awbCode
        trackingData == TrackingDataOf(awbCode, outcome)
    IN  IF isOrderId /\ order = None
        THEN response' = Res("trackShipment", 404, FALSE, "Order not found", Absent) /\ Unchanged
        ELSE IF isOrderId /\ ~Truthy(awbCode)
        THEN /\ response' = Res("trackShipment", 400, FALSE,
                   "No AWB found for this order. Create shipment first.", Absent)
             /\ Unchanged
        ELSE IF ~outcome.ok
        THEN response' = Res("trackShipment", 500, FALSE, "next(error)", Absent) /\ Unchanged
        ELSE IF ~Truthy(trackingData.awb_code)
        THEN /\ response' = Res("trackShipment", 404, FALSE,
                   "No tracking information found for this AWB", Absent)
             /\ Unchanged
        ELSE /\ orders' = IF order = None THEN orders
                          ELSE [orders EXCEPT ![order] = ApplyTracking(@, trackingData, now)]
             /\ response' = Res("trackShipment", 200, TRUE, "",
                   [awbCode |-> trackingData.awb_code, status |-> trackingData.status])
             /\ UNCHANGED <<processedEvents, createOrderCalls, env, service, inflight, now>>

(***************************************************************************)
(* cancelShipment: POST /api/shiprocket/cancel-shipment                    *)
(***************************************************************************)
cancelShipment(body, providerOk) ==
    IF findById(Collection(body.orderType), body.orderId) = None
    THEN response' = Res("cancelShipment", 404, FALSE, "Order not found", Absent) /\ Unchanged
    ELSE LET o == body.orderId
             order == orders[o]
         IN  IF order.shiprocket = Absent \/ ~Truthy(order.shiprocket.awbCode)
             THEN /\ response' = Res("cancelShipment", 400, FALSE,
                        "No AWB found for this order", Absent)
                  /\ Unchanged
             ELSE IF ~providerOk
             THEN /\ response' = Res("cancelShipment", 500, FALSE, "next(error)", Absent)
                  /\ Unchanged
             ELSE /\ orders' = [orders EXCEPT
                        ![o].shiprocket.status = "cancelled",
                        ![o].shiprocket.cancellationReason = body.reason,
                        ![o].shiprocket.lastSyncedAt = NewDate(now),
                        ![o].status = "cancelled",
                        ![o].cancellationReason = body.reason]
                  /\ response' = Res("cancelShipment", 200, TRUE,
                        "Shipment cancelled successfully", Absent)
                  /\ UNCHANGED <<processedEvents, createOrderCalls, env, service, inflight, now>>

\* how the provider's cancel call ends: the provider cancels ("ok"), it answers
\* with a body that reports failure ("failure"), or the call throws ("throws")
CancelOutcomes == {"ok", "failure", "throws"}

\* cancelShipment with the provider's answer spelt out: shiprocketService
\* .cancelShipment hands the body of the response back as it is, and the
\* controller never reads cancelResponse
cancelShipmentWith(body, outcome) == cancelShipment(body, outcome # "throws")

(***************************************************************************)
(* requestPickup: POST /api/shiprocket/request-pickup                      *)
(***************************************************************************)
\* orderType, or the misspelt orderTyype when orderType is neither collection
ActualOrderType(body) ==
    IF body.orderType \notin {"regular", "custom"} THEN Or(body.orderTyype, "regular")
    ELSE body.orderType

requestPickup(body, providerOk) ==
    IF ~Truthy(body.orderId)
    THEN response' = Res("requestPickup", 400, FALSE, "Order ID is required", Absent) /\ Unchanged
    ELSE IF ~IsObjectId(body.orderId)
    THEN response' = Res("requestPickup", 500, FALSE, "next(error)", Absent) /\ Unchanged
    ELSE IF findById(Collection(ActualOrderType(body)), body.orderId) = None
    THEN response' = Res("requestPickup", 404, FALSE, "Order not found", Absent) /\ Unchanged
    ELSE LET order == orders[body.orderId]
         IN  IF order.shiprocket = Absent \/ ~Truthy(order.shiprocket.awbCode)
             THEN /\ response' = Res("requestPickup", 400, FALSE,
                        "No AWB found for this order. Create shipment first.", Absent)
                  /\ Unchanged
             ELSE IF ~Truthy(order.shiprocket.shipmentId)
             THEN /\ response' = Res("requestPickup", 400, FALSE,
                        "Shipment ID not found for this order. Create shipment first.", Absent)
                  /\ Unchanged
             ELSE IF ~providerOk
             THEN response' = Res("requestPickup", 500, FALSE, "next(error)", Absent) /\ Unchanged
             ELSE /\ response' = Res("requestPickup", 200, TRUE,
                        "Pickup request submitted successfully.",
                        [orderId |-> body.orderId, awbCode |-> order.shiprocket.awbCode,
                         status |-> "pickup_requested"])
                  /\ Unchanged

(***************************************************************************)
(* generateLabel: POST /api/shiprocket/generate-label                      *)
(***************************************************************************)
\* orderIds.filter(id => !id.match(/^[a-f0-9]{24}$/i))
invalidOrderIds(orderIds) == SelectSeq(orderIds, LAMBDA id : ~IsObjectId(id))

\* the for loop over orderIds: the shipment ids found and the orders skipped
RECURSIVE LabelScan(_, _)
LabelScan(orderIds, orderType) ==
    IF orderIds = <<>> THEN [shipmentIds |-> <<>>, missingShipments |-> <<>>]
    ELSE LET orderId == Head(orderIds)
             rest == LabelScan(Tail(orderIds), orderType)
             order == findById(Collection(orderType), orderId)
         IN  IF order = None
             THEN [rest EXCEPT !.missingShipments =
                      <<[orderId |-> orderId, reason |-> "Order not found"]>> \o @]
             ELSE IF orders[order].shiprocket # Absent
                     /\ Truthy(orders[order].shiprocket.shipmentId)
             THEN [rest EXCEPT !.shipmentIds = <<orders[order].shiprocket.shipmentId>> \o @]
             ELSE [rest EXCEPT !.missingShipments =
                      <<[orderId |-> orderId,
                         reason |-> IF orders[order].shiprocket # Absent
                                    THEN "Shipment exists but no shipment ID found"
                                    ELSE "No shipment record found in order"]>> \o @]

\* a body without the field orderIds is a request that carries none
generateLabel(body, providerOk) ==
    IF "orderIds" \notin DOMAIN body
    THEN response' = Res("generateLabel", 400, FALSE, "Order IDs are required", Absent) /\ Unchanged
    ELSE IF Len(body.orderIds) = 0
    THEN /\ response' = Res("generateLabel", 400, FALSE, "Order IDs array cannot be empty", Absent)
         /\ Unchanged
    ELSE IF Len(invalidOrderIds(body.orderIds)) > 0
    THEN /\ response' = Res("generateLabel", 400, FALSE, "Invalid order ID format found",
               [invalidOrderIds |-> invalidOrderIds(body.orderIds)])
         /\ Unchanged
    ELSE LET scan == LabelScan(body.orderIds, ActualOrderType(body))
         IN  IF Len(scan.shipmentIds) = 0
             THEN /\ response' = Res("generateLabel", 400, FALSE,
                        "No shipment IDs found for the provided orders. Shipment must be created first.",
                        [orderIds |-> body.orderIds,
                         missingShipments |-> scan.missingShipments])
                  /\ Unchanged
             ELSE IF ~providerOk
             THEN response' = Res("generateLabel", 500, FALSE, "next(error)", Absent) /\ Unchanged
             ELSE /\ response' = Res("generateLabel", 200, TRUE,
                        "Label generation request processed",
                        [shipmentIds |-> scan.shipmentIds, count |-> Len(scan.shipmentIds)])
                  /\ Unchanged

(***************************************************************************)
(* razorpayWebhook: POST /api/payment/webhook, and its event handlers      *)
(***************************************************************************)
RazorpaySecret == "whsec"

\* EVENT_CACHE_TTL = 24 * 60 * 60 * 1000 ms, in hours
EVENT_CACHE_TTL == 24

\* the callback of setInterval: delete the keys older than EVENT_CACHE_TTL
cleanup ==
    /\ processedEvents' =
          [k \in {j \in DOMAIN processedEvents : ~(now - processedEvents[j] > EVENT_CACHE_TTL)}
             |-> processedEvents[k]]
    /\ UNCHANGED <<orders, createOrderCalls, env, service, inflight, now, response>>

\* findOrderByRazorpayId: regular orders first, then custom orders
RazorpayMatches(coll, razorpayOrderId) ==
    {o \in coll : orders[o].payment.razorpayOrderId = razorpayOrderId}

findOrderByRazorpayId(razorpayOrderId) ==
    IF RazorpayMatches(RegularOrders, razorpayOrderId) # {}
    THEN CHOOSE o \in RazorpayMatches(RegularOrders, razorpayOrderId) : TRUE
    ELSE IF RazorpayMatches(CustomOrders, razorpayOrderId) # {}
    THEN CHOOSE o \in RazorpayMatches(CustomOrders, razorpayOrderId) : TRUE
    ELSE None

\* what an event handler leaves behind: the collections and its return value
Handled(newOrders, success, message) ==
    [orders |-> newOrders, success |-> success, message |-> message, threw |-> FALSE]

Threw == [orders |-> orders, success |-> FALSE, message |-> "TypeError", threw |-> TRUE]

\* a payment.captured handler that marks the payment paid and leaves order.status
handlePaymentCapturedNoConfirm(payment) ==
    LET o == findOrderByRazorpayId(payment.order_id)
    IN  IF o = None THEN Handled(orders, FALSE, "Order not found")
        ELSE IF orders[o].payment.status = "paid"
        THEN Handled(orders, TRUE, "Already processed")
        ELSE Handled([orders EXCEPT
                        ![o].payment.razorpayPaymentId = payment.id,
                        ![o].payment.status = "paid",
                        ![o].payment.paidAt = NewDate(payment.created_at * 1000)],
                     TRUE, "Payment captured successfully")

handlePaymentCaptured(payment) ==
    LET o == findOrderByRazorpayId(payment.order_id)
    IN  IF o = None THEN Handled(orders, FALSE, "Order not found")
        ELSE IF orders[o].payment.status = "paid"
        THEN Handled(orders, TRUE, "Already processed")
        ELSE Handled([orders EXCEPT
                        ![o].payment.razorpayPaymentId = payment.id,
                        ![o].payment.status = "paid",
                        ![o].payment.paidAt = NewDate(payment.created_at * 1000),
                        ![o].status = "confirmed"],
                     TRUE, "Payment captured successfully")

handlePaymentAuthorized(payment) ==
    LET o == findOrderByRazorpayId(payment.order_id)
    IN  IF o = None THEN Handled(orders, FALSE, "Order not found")
        ELSE IF ~Truthy(orders[o].payment.razorpayPaymentId)
        THEN Handled([orders EXCEPT ![o].payment.razorpayPaymentId = payment.id],
                     TRUE, "Payment authorized")
        ELSE Handled(orders, TRUE, "Payment authorized")

\* a payment.failed handler without the already-paid guard
handlePaymentFailedUnguarded(payment) ==
    LET o == findOrderByRazorpayId(payment.order_id)
    IN  IF o = None THEN Handled(orders, FALSE, "Order not found")
        ELSE Handled([orders EXCEPT
                        ![o].payment.razorpayPaymentId = payment.id,
                        ![o].payment.status = "failed",
                        ![o].notes = "Payment failed: Unknown error"],
                     TRUE, "Payment failure recorded")

handlePaymentFailed(payment) ==
    LET o == findOrderByRazorpayId(payment.order_id)
    IN  IF o = None THEN Handled(orders, FALSE, "Order not found")
        ELSE IF orders[o].payment.status = "paid"
        THEN Handled(orders, TRUE, "Order already paid, ignoring failure")
        ELSE Handled([orders EXCEPT
                        ![o].payment.razorpayPaymentId = payment.id,
                        ![o].payment.status = "failed",
                        ![o].notes = "Payment failed: Unknown error"],
                     TRUE, "Payment failure recorded")

\* an order.paid handler without the already-paid guard
handleOrderPaidUnguarded(razorpayOrder, t) ==
    LET o == findOrderByRazorpayId(razorpayOrder.id)
    IN  IF o = None THEN Handled(orders, FALSE, "Order not found")
        ELSE Handled([orders EXCEPT
                        ![o].payment.status = "paid",
                        ![o].payment.paidAt = NewDate(t),
                        ![o].status = "confirmed"],
                     TRUE, "Order paid")

handleOrderPaid(razorpayOrder, t) ==
    LET o == findOrderByRazorpayId(razorpayOrder.id)
    IN  IF o = None THEN Handled(orders, FALSE, "Order not found")
        ELSE IF orders[o].payment.status = "paid"
        THEN Handled(orders, TRUE, "Already processed")
        ELSE Handled([orders EXCEPT
                        ![o].payment.status = "paid",
                        ![o].payment.paidAt = NewDate(t),
                        ![o].status = "confirmed"],
                     TRUE, "Order paid")

\* findOne({ 'payment.razorpayPaymentId': paymentId }): regular orders first,
\* then custom orders
PaymentIdMatches(coll, paymentId) ==
    {o \in coll : orders[o].payment.razorpayPaymentId = paymentId}

findOrderByPaymentId(paymentId) ==
    IF PaymentIdMatches(RegularOrders, paymentId) # {}
    THEN CHOOSE o \in PaymentIdMatches(RegularOrders, paymentId) : TRUE
    ELSE IF PaymentIdMatches(CustomOrders, paymentId) # {}
    THEN CHOOSE o \in PaymentIdMatches(CustomOrders, paymentId) : TRUE
    ELSE None

handleRefundCreated(refund, payment) ==
    LET paymentId == Or(refund.payment_id, IF payment = Absent THEN None ELSE payment.id)
        o == findOrderByPaymentId(paymentId)
    IN  IF o = None THEN Handled(orders, FALSE, "Order not found")
        ELSE Handled([orders EXCEPT
                        ![o].refundAmount = @ + (refund.amount \div 100),
                        ![o].refundStatus = "processing"],
                     TRUE, "Refund recorded")

\* a refund.processed handler that marks the payment refunded whatever was refunded
handleRefundProcessedAlways(refund) ==
    LET o == findOrderByPaymentId(refund.payment_id)
    IN  IF o = None THEN Handled(orders, FALSE, "Order not found")
        ELSE Handled([orders EXCEPT
                        ![o].refundStatus = "completed",
                        ![o].payment.status = "refunded"],
                     TRUE, "Refund completed")

handleRefundProcessed(refund) ==
    LET o == findOrderByPaymentId(refund.payment_id)
    IN  IF o = None THEN Handled(orders, FALSE, "Order not found")
        ELSE Handled([orders EXCEPT
                        ![o].refundStatus = "completed",
                        ![o].payment.status =
                            IF orders[o].refundAmount >= orders[o].total THEN "refunded" ELSE @],
                     TRUE, "Refund completed")

handleRefundFailed(refund) ==
    LET o == findOrderByPaymentId(refund.payment_id)
    IN  IF o = None THEN Handled(orders, FALSE, "Order not found")
        ELSE Handled([orders EXCEPT
                        ![o].refundStatus = "failed",
                        ![o].notes = "Refund failed: Unknown reason"],
                     TRUE, "Refund failure recorded")

\* `${event.event}-${payment id || refund id || order id || Date.now()}`
eventKey(event, t) ==
    event.event \o "-" \o
        Or(IF event.payment = Absent THEN None ELSE event.payment.id,
           Or(IF event.refund = Absent THEN None ELSE event.refund.id,
              Or(IF event.order = Absent THEN None ELSE event.order.id, ToString(t))))

\* the switch over event.event
Dispatch(event, t) ==
    CASE event.event = "payment.captured" ->
            IF event.payment = Absent THEN Threw ELSE handlePaymentCaptured(event.payment)
      [] event.event = "payment.authorized" ->
            IF event.payment = Absent THEN Threw ELSE handlePaymentAuthorized(event.payment)
      [] event.event = "payment.failed" ->
            IF event.payment = Absent THEN Threw ELSE handlePaymentFailed(event.payment)
      [] event.event = "refund.created" ->
            IF event.refund = Absent THEN Threw
            ELSE handleRefundCreated(event.refund, event.payment)
      [] event.event = "refund.processed" ->
            IF event.refund = Absent THEN Threw ELSE handleRefundProcessed(event.refund)
      [] event.event = "refund.failed" ->
            IF event.refund = Absent THEN Threw ELSE handleRefundFailed(event.refund)
      [] event.event = "order.paid" ->
            IF event.order = Absent THEN Threw ELSE handleOrderPaid(event.order, t)
      [] OTHER -> Handled(orders, TRUE, "Event acknowledged but not processed")

\* a webhook handler that never looks at the signature
razorpayWebhookUnverified(signatureValid, event) ==
    IF ~Truthy(env.RAZORPAY_WEBHOOK_SECRET)
    THEN /\ response' = Res("razorpayWebhook", 500, FALSE, "Webhook secret not configured", Absent)
         /\ Unchanged
    ELSE IF eventKey(event, now) \in DOMAIN processedEvents
    THEN /\ response' = Res("razorpayWebhook", 200, TRUE, "Event already processed", Absent)
         /\ Unchanged
    ELSE LET h == Dispatch(event, now)
         IN  /\ Cardinality(DOMAIN processedEvents) < MaxLedger
             /\ processedEvents' = (eventKey(event, now) :> now) @@ processedEvents
             /\ orders' = h.orders
             /\ response' = Res("razorpayWebhook", 200, h.success, h.message, Absent)
             /\ UNCHANGED <<createOrderCalls, env, service, inflight, now>>

razorpayWebhook(signatureValid, event) ==
    IF ~Truthy(env.RAZORPAY_WEBHOOK_SECRET)
    THEN /\ response' = Res("razorpayWebhook", 500, FALSE, "Webhook secret not configured", Absent)
         /\ Unchanged
    ELSE IF ~signatureValid
    THEN /\ response' = Res("razorpayWebhook", 400, FALSE, "Invalid signature", Absent)
         /\ Unchanged
    ELSE IF eventKey(event, now) \in DOMAIN processedEvents
    THEN /\ response' = Res("razorpayWebhook", 200, TRUE, "Event already processed", Absent)
         /\ Unchanged
    ELSE LET h == Dispatch(event, now)
         IN  /\ Cardinality(DOMAIN processedEvents) < MaxLedger
             /\ processedEvents' = (eventKey(event, now) :> now) @@ processedEvents
             /\ orders' = h.orders
             /\ response' =
                  IF h.threw
                  THEN Res("razorpayWebhook", 200, FALSE,
                           "Error processing webhook, logged for review", Absent)
                  ELSE Res("razorpayWebhook", 200, h.success, h.message, Absent)
             /\ UNCHANGED <<createOrderCalls, env, service, inflight, now>>

\* the switch reaches an await: the event has a case of its own and the entity
\* the case reads is there (reading it off a missing object throws before the call)
AwaitsHandler(event) ==
    CASE event.event \in {"payment.captured", "payment.authorized", "payment.failed"} ->
            event.payment # Absent
      [] event.event \in {"refund.created", "refund.processed", "refund.failed"} ->
            event.refund # Absent
      [] event.event = "order.paid" -> event.order # Absent
      [] OTHER -> FALSE

\* the answer of razorpayWebhook once the switch is through
Answer(h) ==
    IF h.threw
    THEN Res("razorpayWebhook", 200, FALSE, "Error processing webhook, logged for review", Absent)
    ELSE Res("razorpayWebhook", 200, h.success, h.message, Absent)

\* a first part of razorpayWebhook that leaves the marking of the key to the
\* part after the await
razorpayBeginUnmarked(r, signatureValid, event) ==
    /\ inflight[r] = Idle
    /\ IF ~Truthy(env.RAZORPAY_WEBHOOK_SECRET)
       THEN /\ response' = Res("razorpayWebhook", 500, FALSE, "Webhook secret not configured", Absent)
            /\ UNCHANGED <<orders, processedEvents, createOrderCalls, env, service, inflight, now>>
       ELSE IF ~signatureValid
       THEN /\ response' = Res("razorpayWebhook", 400, FALSE, "Invalid signature", Absent)
            /\ UNCHANGED <<orders, processedEvents, createOrderCalls, env, service, inflight, now>>
       ELSE IF eventKey(event, now) \in DOMAIN processedEvents
       THEN /\ response' = Res("razorpayWebhook", 200, TRUE, "Event already processed", Absent)
            /\ UNCHANGED <<orders, processedEvents, createOrderCalls, env, service, inflight, now>>
       ELSE IF AwaitsHandler(event)
       THEN /\ inflight' = [inflight EXCEPT ![r] =
                   [Idle EXCEPT !.stage = "dispatched", !.event = event]]
            /\ UNCHANGED <<orders, processedEvents, createOrderCalls, env, service, now, response>>
       ELSE /\ response' = Answer(Dispatch(event, now))
            /\ UNCHANGED <<orders, processedEvents, createOrderCalls, env, service, inflight, now>>

\* razorpayWebhook up to the first await, inside the event handler: the
\* signature check, the duplicate check and processedEvents.set run in one turn
\* of the event loop
razorpayBegin(r, signatureValid, event) ==
    /\ inflight[r] = Idle
    /\ IF ~Truthy(env.RAZORPAY_WEBHOOK_SECRET)
       THEN /\ response' = Res("razorpayWebhook", 500, FALSE, "Webhook secret not configured", Absent)
            /\ UNCHANGED <<orders, processedEvents, createOrderCalls, env, service, inflight, now>>
       ELSE IF ~signatureValid
       THEN /\ response' = Res("razorpayWebhook", 400, FALSE, "Invalid signature", Absent)
            /\ UNCHANGED <<orders, processedEvents, createOrderCalls, env, service, inflight, now>>
       ELSE IF eventKey(event, now) \in DOMAIN processedEvents
       THEN /\ response' = Res("razorpayWebhook", 200, TRUE, "Event already processed", Absent)
            /\ UNCHANGED <<orders, processedEvents, createOrderCalls, env, service, inflight, now>>
       ELSE /\ Cardinality(DOMAIN processedEvents) < MaxLedger
            /\ processedEvents' = (eventKey(event, now) :> now) @@ processedEvents
            /\ IF AwaitsHandler(event)
               THEN /\ inflight' = [inflight EXCEPT ![r] =
                          [Idle EXCEPT !.stage = "dispatched", !.event = event]]
                    /\ UNCHANGED <<orders, createOrderCalls, env, service, now, response>>
               ELSE /\ response' = Answer(Dispatch(event, now))
                    /\ UNCHANGED <<orders, createOrderCalls, env, service, inflight, now>>

\* the rest of razorpayWebhook: the event handler runs and the result is answered
razorpayRun(r) ==
    /\ inflight[r].stage = "dispatched"
    /\ LET h == Dispatch(inflight[r].event, now)
       IN  /\ orders' = h.orders
           /\ response' = Answer(h)
    /\ inflight' = [inflight EXCEPT ![r] = Idle]
    /\ UNCHANGED <<processedEvents, createOrderCalls, env, service, now>>

(***************************************************************************)
(* verifyPayment: POST /api/payment/verify                                 *)
(***************************************************************************)
verifyPayment(body, signatureValid) ==
    IF ~signatureValid
    THEN /\ response' = Res("verifyPayment", 400, FALSE, "Payment verification failed", Absent)
         /\ Unchanged
    ELSE IF ~IsObjectId(body.orderId)
    THEN response' = Res("verifyPayment", 500, FALSE, "next(error)", Absent) /\ Unchanged
    ELSE IF findById(Collection(body.orderType), body.orderId) = None
    THEN response' = Res("verifyPayment", 404, FALSE, "Order not found", Absent) /\ Unchanged
    ELSE /\ orders' = [orders EXCEPT
               ![body.orderId].payment.razorpayOrderId = body.razorpayOrderId,
               ![body.orderId].payment.razorpayPaymentId = body.razorpayPaymentId,
               ![body.orderId].payment.status = "paid",
               ![body.orderId].payment.paidAt = NewDate(now),
               ![body.orderId].status = "confirmed"]
         /\ response' = Res("verifyPayment", 200, TRUE, "Payment verified successfully", Absent)
         /\ UNCHANGED <<processedEvents, createOrderCalls, env, service, inflight, now>>

(***************************************************************************)
(* ShiprocketService.request(method, endpoint, data, retryCount):          *)
(* utils/shiprocket.js                                                     *)
(***************************************************************************)
maxRetries == 2

\* error.response?.status when the attempt got no response at all
NoStatus == 0

\* the failures request tries again after a delay
Retryable(status) == status \in {429, 500, 502, 503, 504, NoStatus}

\* how one attempt ends: with a response (200), or with an error of this status
AttemptOutcomes == {200, 400, 401, 403, 404, 422, 429, 500, 502, 503, 504, NoStatus}

\* a caller invokes request(method, endpoint, data)
requestCall ==
    /\ service.stage \in {"idle", "done"}
    /\ service' = [NoCall EXCEPT !.op = "request", !.stage = "attempting"]
    /\ UNCHANGED <<orders, processedEvents, createOrderCalls, env, now, response, inflight>>

\* an attempt that tries again after every transient failure, whatever retryCount is
requestAttemptUncapped(status) ==
    /\ service.op = "request"
    /\ service.stage = "attempting"
    /\ LET tried == [service EXCEPT !.attempts = @ + 1, !.trace = Append(@, status)]
       IN  service' =
             IF status = 200
             THEN [tried EXCEPT !.stage = "done", !.result = "returned"]
             ELSE IF Retryable(status)
             THEN [tried EXCEPT !.retryCount = @ + 1]
             ELSE IF status = 401 /\ service.retryCount = 0
             THEN [tried EXCEPT !.retryCount = @ + 1]
             ELSE [tried EXCEPT !.stage = "done", !.result = "thrown"]
    /\ UNCHANGED <<orders, processedEvents, createOrderCalls, env, now, response, inflight>>

\* one pass through the body of request: axios(config) answers or fails with
\* the status, and the catch block tries again (the recursive call) or throws
requestAttempt(status) ==
    /\ service.op = "request"
    /\ service.stage = "attempting"
    /\ LET tried == [service EXCEPT !.attempts = @ + 1, !.trace = Append(@, status)]
       IN  service' =
             IF status = 200
             THEN [tried EXCEPT !.stage = "done", !.result = "returned"]
             ELSE IF service.retryCount < maxRetries /\ Retryable(status)
             THEN [tried EXCEPT !.retryCount = @ + 1]
             ELSE IF status = 401 /\ service.retryCount = 0
             THEN [tried EXCEPT !.retryCount = @ + 1]
             ELSE [tried EXCEPT !.stage = "done", !.result = "thrown"]
    /\ UNCHANGED <<orders, processedEvents, createOrderCalls, env, now, response, inflight>>

(***************************************************************************)
(* ShiprocketService.createOrder(orderData), called by createShipment:     *)
(* utils/shiprocket.js, with the weight conversion of the controller.      *)
(* Weights are written in thousandths: 150 is the number 0.15, 1000 is 1.  *)
(***************************************************************************)
Thousandths == 1000

Min(a, b) == IF a < b THEN a ELSE b

Max(a, b) == IF a > b THEN a ELSE b

\* Math.round of a number written in thousandths
Round(x) == ((x + 500) \div Thousandths) * Thousandths

\* createShipment: let weight = rawWeight || 0.15, then the three-way conversion
\* "to grams"; the request carries no weight when rawWeight is 0
ControllerWeight(rawWeight) ==
    LET weight == IF rawWeight = 0 THEN 150 ELSE rawWeight
    IN  IF weight <= 1 * Thousandths
        THEN Min(Round(weight * 1000), 1000 * Thousandths)
        ELSE IF weight <= 1000 * Thousandths
        THEN Min(Round(weight), 1000 * Thousandths)
        ELSE 1000 * Thousandths

\* createOrder: weight: Math.min(Math.max(weight, 0.05), 30), sent as kilograms
PayloadWeight(weight) == Min(Max(weight, 50), 30 * Thousandths)

\* what this.request('POST', '/orders/create/adhoc', ..) gives back:
\*   created      a response with order_id
\*   nested       a response without order_id that is not in the error format
\*   pickupMatch  the pickup-location error naming a location in its message
\*   pickupData   the pickup-location error carrying the locations in its data only
\*   pickupNoName the pickup-location error whose first location has no name
\*   pickupBare   the pickup-location error without any location
\*   error        another response in the error format
\*   throws       request throws
CreateResponses ==
    {"created", "nested", "pickupMatch", "pickupData", "pickupNoName", "pickupBare",
     "error", "throws"}

\* createShipment calls shiprocketService.createOrder with the weight it converted
createOrderCall(rawWeight) ==
    /\ service.stage \in {"idle", "done"}
    /\ service' = [NoCall EXCEPT !.op = "createOrder", !.stage = "submitting",
                                 !.raw = rawWeight,
                                 !.weight = ControllerWeight(rawWeight),
                                 !.sent = PayloadWeight(ControllerWeight(rawWeight))]
    /\ UNCHANGED <<orders, processedEvents, createOrderCalls, env, now, response, inflight>>

\* the first submission of the payload and what createOrder makes of the answer
createOrderSubmit(kind) ==
    /\ service.op = "createOrder"
    /\ service.stage = "submitting"
    /\ LET sent == [service EXCEPT !.attempts = @ + 1, !.trace = Append(@, kind)]
       IN  service' =
             IF kind \in {"created", "nested"}
             THEN [sent EXCEPT !.stage = "done", !.result = "success"]
             ELSE IF kind \in {"pickupMatch", "pickupData"}
             THEN [sent EXCEPT !.stage = "retrying"]
             ELSE [sent EXCEPT !.stage = "done", !.result = "thrown"]
    /\ UNCHANGED <<orders, processedEvents, createOrderCalls, env, now, response, inflight>>

\* a retry that corrects the pickup location again when the provider names another
createOrderRetryAgain(kind) ==
    /\ service.op = "createOrder"
    /\ service.stage = "retrying"
    /\ LET sent == [service EXCEPT !.attempts = @ + 1, !.trace = Append(@, kind)]
       IN  service' =
             IF kind = "created"
             THEN [sent EXCEPT !.stage = "done", !.result = "success"]
             ELSE IF kind \in {"pickupMatch", "pickupData"}
             THEN sent
             ELSE [sent EXCEPT !.stage = "done", !.result = "thrown"]
    /\ UNCHANGED <<orders, processedEvents, createOrderCalls, env, now, response, inflight>>

\* the retry with the corrected pickup location: success if the answer has an
\* order_id, else the code falls through to one of the two throw statements
createOrderRetry(kind) ==
    /\ service.op = "createOrder"
    /\ service.stage = "retrying"
    /\ LET sent == [service EXCEPT !.attempts = @ + 1, !.trace = Append(@, kind)]
       IN  service' =
             IF kind = "created"
             THEN [sent EXCEPT !.stage = "done", !.result = "success"]
             ELSE [sent EXCEPT !.stage = "done", !.result = "thrown"]
    /\ UNCHANGED <<orders, processedEvents, createOrderCalls, env, now, response, inflight>>

(***************************************************************************)
(* Requests the environment sends.                                         *)
(***************************************************************************)
Header(xApiKey, authorization) == [xApiKey |-> xApiKey, authorization |-> authorization]

WebhookHeaders ==
    { Header(ShiprocketSecret, None), Header("wrong-token", None), Header(None, None),
      Header(None, "Bearer " \o ShiprocketSecret),
      Header("wrong-token", "Bearer " \o ShiprocketSecret) }

RawStatuses == {"Delivered", "In Transit", "Cancelled", "RTO Initiated", "Customs Hold"}

Payload(awb, ref, status) ==
    [awb_code |-> awb, order_id |-> ref, status |-> status,
     delivered_date |-> None, reason |-> None]

\* webhooks about an order, carrying its first AWB and its order reference
PayloadsFor(o, statuses) ==
    { Payload(AwbOf(o, 1), (IF o \in CustomOrders THEN "CUST-" ELSE "ORD-") \o o, s) :
        s \in statuses }

\* webhooks about the two orders
OrderPayloads(statuses) ==
    PayloadsFor(RegularId, statuses) \cup PayloadsFor(CustomId, statuses)

\* a webhook about an unknown shipment, one whose order reference is no
\* ObjectId, and Shiprocket's test webhook
OtherPayloads ==
    { Payload("AWB-0-0", "ORD-" \o UnknownId, "In Transit"),
      Payload("AWB-0-0", "ORD-1", "In Transit"),
      Payload(None, None, "In Transit") }

\* webhooks that match no order, among them two that carry the word test
UnmatchedPayloads ==
    OtherPayloads
    \cup { Payload("AWB-0-0", "test", "In Transit"),
           Payload("test", "ORD-" \o UnknownId, "In Transit"),
           Payload("AWB-0-0", "CUST-" \o UnknownId, "Delivered") }

WebhookPayloads == OrderPayloads(RawStatuses) \cup UnmatchedPayloads

\* the webhooks of a shipment's usual course
CourseStatuses == {"In Transit", "Delivered", "Cancelled"}

\* the statuses that tell the arms of the status mapping apart
MappingStatuses == RawStatuses \cup {"Cancelled in Transit"}

\* the statuses of a delivery that goes well
DeliveryStatuses == {"In Transit", "Out for Delivery", "Delivered"}

CoursePayloads == OrderPayloads(CourseStatuses) \cup OtherPayloads

\* those about one order
OneOrderPayloads == PayloadsFor(RegularId, CourseStatuses) \cup OtherPayloads

Body(orderId, orderType) == [orderId |-> orderId, orderType |-> orderType]

\* requests naming an order of the right collection
ValidBodies == { Body(RegularId, "regular"), Body(CustomId, "custom") }

ShipmentBodies ==
    { Body(id, ty) : id \in OrderIds, ty \in {"regular", "custom"} }
    \cup { Body(None, "regular"), Body("ORD-1", "regular"), Body(UnknownId, "regular") }

CancelBodies ==
    { [orderId |-> id, orderType |-> ty, reason |-> "Customer request"] :
        id \in OrderIds \cup {UnknownId}, ty \in {"regular", "custom"} }

\* the statuses the provider reports on a tracking query
TrackStatuses == CourseStatuses \cup {"Out for Delivery"}

\* an order id, an unknown order id and a bare AWB
TrackIdentifiers == {RegularId, UnknownId, AwbOf(RegularId, 1)}

TrackOutcomes ==
    { TrackOutcome(TRUE, TRUE, st) : st \in TrackStatuses }
    \cup { TrackOutcome(TRUE, FALSE, None), TrackOutcome(FALSE, FALSE, None) }

PickupBody(orderId, orderType) ==
    [orderId |-> orderId, orderType |-> orderType, orderTyype |-> None]

PickupBodies ==
    { PickupBody(RegularId, "regular"), PickupBody(CustomId, "custom"),
      PickupBody(CustomId, "regular"), PickupBody(None, "regular"),
      PickupBody("ORD-1", "regular"),
      [orderId |-> CustomId, orderType |-> "cusotm", orderTyype |-> "custom"] }

LabelBody(orderIds, orderType) ==
    [orderIds |-> orderIds, orderType |-> orderType, orderTyype |-> None]

\* batches of one and two order ids: known, unknown and malformed ones
LabelBatches ==
    { <<>>, <<RegularId>>, <<UnknownId>>, <<"ORD-1">>, <<RegularId, UnknownId>>,
      <<UnknownId, RegularId>>, <<RegularId, "ORD-1">>, <<RegularId, CustomId>> }

LabelBodies ==
    { LabelBody(ids, "regular") : ids \in LabelBatches }
    \cup { LabelBody(<<CustomId>>, "custom"), [orderType |-> "regular", orderTyype |-> None] }

PaymentEntity(id, orderId) == [id |-> id, order_id |-> orderId, created_at |-> 0]

PaymentEntities ==
    { PaymentEntity("pay_1", "order_" \o RegularId),
      PaymentEntity("pay_2", "order_" \o RegularId),
      PaymentEntity("pay_3", "order_" \o CustomId),
      PaymentEntity("pay_9", "order_unknown") }

OrderEntities ==
    { [id |-> "order_" \o RegularId], [id |-> "order_" \o CustomId], [id |-> "order_unknown"] }

Event(type, payment, order) ==
    [event |-> type, payment |-> payment, refund |-> Absent, order |-> order]

RefundEntity(id, paymentId, amount) == [id |-> id, payment_id |-> paymentId, amount |-> amount]

\* a refund event, with or without the payment entity beside the refund entity
RefundEvent(type, refund, payment) ==
    [event |-> type, payment |-> payment, refund |-> refund, order |-> Absent]

\* two partial refunds of the regular order's payment, of one rupee each
Refunds == { RefundEntity("rfnd_1", "pay_1", 100), RefundEntity("rfnd_2", "pay_1", 100) }

RefundEvents ==
    { RefundEvent("refund.created", r, p) :
        r \in Refunds, p \in {Absent, PaymentEntity("pay_1", "order_" \o RegularId)} }
    \cup { RefundEvent(e, r, Absent) : e \in {"refund.processed", "refund.failed"}, r \in Refunds }

\* the capture of the payment the refunds are about
CaptureEvents ==
    { Event("payment.captured", PaymentEntity("pay_1", "order_" \o RegularId), Absent) }

\* payment.captured and order.paid
PaidEvents ==
    { Event("payment.captured", p, Absent) : p \in PaymentEntities }
    \cup { Event("order.paid", Absent, r) : r \in OrderEntities }

\* one payment.captured and one order.paid for each order
FirstPaidEvents ==
    { Event("payment.captured", PaymentEntity("pay_1", "order_" \o RegularId), Absent),
      Event("payment.captured", PaymentEntity("pay_3", "order_" \o CustomId), Absent),
      Event("order.paid", Absent, [id |-> "order_" \o RegularId]),
      Event("order.paid", Absent, [id |-> "order_" \o CustomId]) }

RazorpayEvents ==
    PaidEvents
    \cup { Event(e, p, Absent) : e \in {"payment.authorized", "payment.failed"},
                                 p \in PaymentEntities }
    \cup { Event("payment.captured", Absent, Absent), Event("invoice.paid", Absent, Absent) }

Tick == /\ now < MaxTime
        /\ now' = now + 1
        /\ UNCHANGED <<orders, processedEvents, createOrderCalls, env, service, inflight, response>>

\* hours go by: an hour, or half a day
Elapse ==
    \E h \in {1, 12} :
        /\ now + h <= MaxClock
        /\ now' = now + h
        /\ UNCHANGED <<orders, processedEvents, createOrderCalls, env, service, inflight, response>>

Configs(shiprocketSecrets, razorpaySecrets) ==
    { [SHIPROCKET_WEBHOOK_SECRET |-> s, RAZORPAY_WEBHOOK_SECRET |-> r] :
        s \in shiprocketSecrets, r \in razorpaySecrets }

\* the state after start-up, with env one of the given configurations
Start(configs) ==
    /\ orders = [o \in OrderIds |-> NewOrder(o)]
    /\ processedEvents = [k \in {} |-> 0]
    /\ createOrderCalls = [o \in OrderIds |-> 0]
    /\ env \in configs
    /\ now = 0
    /\ response = NoResponse
    /\ inflight = [r \in Requests |-> Idle]
    /\ service = NoCall

Init == Start(Configs({None, ShiprocketSecret}, {None, RazorpaySecret}))

\* the shipping side, with the payment webhook configured
InitShipping == Start(Configs({None, ShiprocketSecret}, {RazorpaySecret}))

\* the payment side, with the shipping webhook configured
InitPayment == Start(Configs({ShiprocketSecret}, {None, RazorpaySecret}))

\* both webhooks configured
InitConfigured == Start(Configs({ShiprocketSecret}, {RazorpaySecret}))

\* shipping addresses as customers enter them: address line and postal code
Addresses ==
    { [address1 |-> a, postalCode |-> pc] :
        a \in {"A", "A1", "Main", "12 Main St"}, pc \in {None, "825418"} }

\* both webhooks configured, and every order shipped to the same sample address
InitAddress ==
    /\ \E a \in Addresses :
          orders = [o \in OrderIds |-> [NewOrder(o) EXCEPT !.shippingAddress = a]]
    /\ processedEvents = [k \in {} |-> 0]
    /\ createOrderCalls = [o \in OrderIds |-> 0]
    /\ env \in Configs({ShiprocketSecret}, {RazorpaySecret})
    /\ now = 0
    /\ response = NoResponse
    /\ inflight = [r \in Requests |-> Idle]
    /\ service = NoCall

WebhookStep(headers, payloads) == \E h \in headers, p \in payloads : handleWebhook(h, p)

CreateStep(bodies, shapes) == \E b \in bodies, shape \in shapes : createShipment(b, shape)

AssignStep(bodies, shapes) == \E b \in bodies, shape \in shapes : assignCourier(b, shape)

AutoStep(shapes) ==
    \E o \in OrderIds \cup {UnknownId}, ty \in {"regular", "custom"}, shape \in shapes :
        createAutoShipment(o, ty, shape)

CancelStep == \E b \in CancelBodies, ok \in BOOLEAN : cancelShipment(b, ok)

PickupStep == \E b \in PickupBodies, ok \in BOOLEAN : requestPickup(b, ok)

LabelStep == \E b \in LabelBodies, ok \in BOOLEAN : generateLabel(b, ok)

TrackStep ==
    \E id \in TrackIdentifiers, ty \in {"regular", "custom"}, outcome \in TrackOutcomes :
        trackShipment(id, ty, outcome)

WebhookLoadStep(headers, payloads) ==
    \E r \in Requests, h \in headers, p \in payloads : webhookLoad(r, h, p)

WebhookSaveStep == \E r \in Requests : webhookSave(r)

PaymentBeginStep(events) ==
    \E r \in Requests, v \in BOOLEAN, e \in events : razorpayBegin(r, v, e)

PaymentRunStep == \E r \in Requests : razorpayRun(r)

CreateOps == {"createShipment", "assignCourier", "createAutoShipment"}

CreateBeginStep(bodies, shapes) ==
    \E r \in Requests, op \in CreateOps, b \in bodies, shape \in shapes :
        createBegin(r, op, b, shape)

CreateFinishStep == \E r \in Requests : createFinish(r)

RequestAttemptStep == \E status \in AttemptOutcomes : requestAttempt(status)

\* the weights a create-shipment request carries: none (0), 0.05 kg to 1 kg in
\* steps of 0.05 kg, and larger numbers
RawWeights == {0} \cup {50 * k : k \in 1..20} \cup {1500, 150 * Thousandths, 2000 * Thousandths}

CreateOrderCallStep == \E w \in RawWeights : createOrderCall(w)

CreateOrderSubmitStep == \E kind \in CreateResponses : createOrderSubmit(kind)

CreateOrderRetryStep == \E kind \in CreateResponses : createOrderRetry(kind)

\* the order reference createShipment gives the provider for an order
OrderRefOf(o) == (IF o \in CustomOrders THEN "CUST-" ELSE "ORD-") \o o

\* webhooks that carry the order reference of one order and the first AWB of
\* another (or of the same) order
CrossPayloads ==
    { Payload(AwbOf(b, 1), OrderRefOf(a), s) :
        a \in OrderIds, b \in OrderIds, s \in {"In Transit", "Delivered"} }

CancelOutcomeStep ==
    \E b \in CancelBodies, outcome \in CancelOutcomes : cancelShipmentWith(b, outcome)

\* what the checkout page posts after a payment: the ids of the payment of an
\* order, for the two orders and for an order that is not stored
VerifyBodies ==
    { [orderId |-> RegularId, orderType |-> "regular",
       razorpayOrderId |-> "order_" \o RegularId, razorpayPaymentId |-> "pay_1"],
      [orderId |-> CustomId, orderType |-> "custom",
       razorpayOrderId |-> "order_" \o CustomId, razorpayPaymentId |-> "pay_3"],
      [orderId |-> UnknownId, orderType |-> "regular",
       razorpayOrderId |-> "order_" \o UnknownId, razorpayPaymentId |-> "pay_9"],
      [orderId |-> "ORD-1", orderType |-> "regular",
       razorpayOrderId |-> "order_1", razorpayPaymentId |-> "pay_9"] }

VerifyStep == \E b \in VerifyBodies, v \in BOOLEAN : verifyPayment(b, v)

PaymentStep(events) == \E v \in BOOLEAN, e \in events : razorpayWebhook(v, e)

Next ==
    \/ WebhookStep(WebhookHeaders, WebhookPayloads)
    \/ CreateStep(ShipmentBodies, CreateOrderShapes)
    \/ AssignStep(ShipmentBodies, CreateOrderShapes)
    \/ AutoStep(CreateOrderShapes)
    \/ CancelStep
    \/ PickupStep
    \/ LabelStep
    \/ TrackStep
    \/ PaymentStep(RazorpayEvents \cup RefundEvents)
    \/ WebhookLoadStep(WebhookHeaders, WebhookPayloads)
    \/ WebhookSaveStep
    \/ PaymentBeginStep(RazorpayEvents \cup RefundEvents)
    \/ PaymentRunStep
    \/ CreateBeginStep(ShipmentBodies, CreateOrderShapes)
    \/ CreateFinishStep
    \/ requestCall
    \/ RequestAttemptStep
    \/ CreateOrderCallStep
    \/ CreateOrderSubmitStep
    \/ CreateOrderRetryStep
    \/ CancelOutcomeStep
    \/ VerifyStep
    \/ cleanup
    \/ Tick
    \/ Elapse

\* the whole backend, its clock counted in hours
Spec == Init /\ [][Next]_vars

\* shipping webhooks arriving for an order without a shipment and with a complete one
WebhookNext ==
    \/ WebhookStep(WebhookHeaders, OneOrderPayloads)
    \/ CreateStep({Body(RegularId, "regular")}, {"ids", "error"})
    \/ Tick

SpecWebhook == InitConfigured /\ [][WebhookNext]_vars

\* the shipment lifecycle: creation by its three entry points, pickup and cancellation
ShipmentNext ==
    \/ CreateStep(ShipmentBodies, CreateOrderShapes)
    \/ AssignStep(ShipmentBodies, CreateOrderShapes)
    \/ AutoStep(CreateOrderShapes)
    \/ CancelStep
    \/ PickupStep

SpecShipment == InitShipping /\ [][ShipmentNext]_vars

\* the payment webhook
PaymentNext == PaymentStep(RazorpayEvents) \/ Tick

SpecPayment == InitPayment /\ [][PaymentNext]_vars

\* the webhooks of both providers
ReconcileNext ==
    \/ WebhookStep({Header(ShiprocketSecret, None)}, CoursePayloads)
    \/ PaymentStep(FirstPaidEvents)
    \/ Tick

SpecReconcile == InitConfigured /\ [][ReconcileNext]_vars

\* shipping webhooks of every kind of status, for an order with or without a shipment
MappingNext ==
    \/ WebhookStep({Header(ShiprocketSecret, None)}, PayloadsFor(RegularId, MappingStatuses))
    \/ CreateStep({Body(RegularId, "regular")}, {"ids"})

SpecMapping == InitConfigured /\ [][MappingNext]_vars

\* tracking queries and shipping webhooks for one order
TrackingNext ==
    \/ CreateStep({Body(RegularId, "regular")}, {"ids"})
    \/ WebhookStep({Header(ShiprocketSecret, None)}, PayloadsFor(RegularId, CourseStatuses))
    \/ TrackStep

SpecTracking == InitConfigured /\ [][TrackingNext]_vars

\* label requests for orders with and without a shipment
LabelNext ==
    \/ CreateStep(ValidBodies, {"ids", "noIds"})
    \/ LabelStep

SpecLabel == InitConfigured /\ [][LabelNext]_vars

\* shipment creation for orders with good, repairable and bad addresses
AddressNext == CreateStep(ValidBodies, CreateOrderShapes)

SpecAddress == InitAddress /\ [][AddressNext]_vars

\* an event that names no entity at all
BareEvents == { Event("payment.captured", Absent, Absent) }

\* a payment and its refunds
RefundNext == PaymentStep(CaptureEvents \cup RefundEvents \cup BareEvents) \/ Tick

SpecRefund == InitConfigured /\ [][RefundNext]_vars

\* shipping webhooks about known and unknown shipments
LookupNext ==
    \/ WebhookStep({Header(ShiprocketSecret, None)},
                   PayloadsFor(RegularId, CourseStatuses) \cup UnmatchedPayloads)
    \/ CreateStep(ValidBodies, {"ids"})

SpecLookup == InitConfigured /\ [][LookupNext]_vars

\* the webhooks of a delivery, for an order with or without a shipment
DeliveryNext ==
    \/ WebhookStep({Header(ShiprocketSecret, None)}, PayloadsFor(RegularId, DeliveryStatuses))
    \/ CreateStep({Body(RegularId, "regular")}, {"ids"})
    \/ Tick

SpecDelivery == InitConfigured /\ [][DeliveryNext]_vars

\* the events whose redelivery the ledger is to recognise
LedgerEvents ==
    { Event("payment.captured", PaymentEntity("pay_1", "order_" \o RegularId), Absent),
      Event("order.paid", Absent, [id |-> "order_" \o RegularId]),
      Event("settlement.processed", Absent, Absent) }

\* payment webhooks, their redeliveries over a day and more, and the hourly cleanup
LedgerNext == PaymentStep(LedgerEvents) \/ cleanup \/ Elapse

SpecLedger == InitConfigured /\ [][LedgerNext]_vars

\* the events delivered concurrently: the two that report the payment of an
\* order, and events that carry no entity
ConcurrentEvents ==
    FirstPaidEvents \cup BareEvents \cup {Event("settlement.processed", Absent, Absent)}

\* payment webhooks handled concurrently
CheckAndMarkNext ==
    \/ PaymentBeginStep(ConcurrentEvents)
    \/ PaymentRunStep
    \/ Tick

SpecCheckAndMark == InitConfigured /\ [][CheckAndMarkNext]_vars

\* shipping webhooks for one order handled concurrently
ConcurrentNext ==
    \/ WebhookLoadStep({Header(ShiprocketSecret, None)}, PayloadsFor(RegularId, CourseStatuses))
    \/ WebhookSaveStep

SpecConcurrent == InitConfigured /\ [][ConcurrentNext]_vars

\* create-shipment requests handled concurrently; the provider answers with a
\* shipment id and an AWB, or fails
ConcurrentCreateNext ==
    \/ CreateBeginStep(ValidBodies, {"ids", "error"})
    \/ CreateFinishStep

SpecConcurrentCreate == InitConfigured /\ [][ConcurrentCreateNext]_vars

\* calls of ShiprocketService.request, every attempt ending in any way
RequestNext ==
    \/ requestCall
    \/ RequestAttemptStep

SpecRequest == InitConfigured /\ [][RequestNext]_vars

\* calls of ShiprocketService.createOrder by createShipment, the provider
\* answering each submission in any way
CreateOrderNext ==
    \/ CreateOrderCallStep
    \/ CreateOrderSubmitStep
    \/ CreateOrderRetryStep

SpecCreateOrder == InitConfigured /\ [][CreateOrderNext]_vars

\* shipping webhooks whose order reference and AWB may point at different orders
PrecedenceNext ==
    \/ WebhookStep({Header(ShiprocketSecret, None)}, CrossPayloads)
    \/ CreateStep(ValidBodies, {"ids"})

SpecPrecedence == InitConfigured /\ [][PrecedenceNext]_vars

\* shipping webhooks in every configuration: SHIPROCKET_WEBHOOK_SECRET set or not
SpecAnyConfig == InitShipping /\ [][WebhookNext]_vars

\* provider calls that succeed, report failure or throw
ProviderFailureNext ==
    \/ CreateStep(ValidBodies, {"ids", "error"})
    \/ CancelOutcomeStep
    \/ TrackStep
    \/ Tick

SpecProviderFailure == InitConfigured /\ [][ProviderFailureNext]_vars

\* the regular order after its payment pay_1 was captured, with nothing refunded
\* yet or with one rupee refunded by an earlier refund whose ledger keys have expired
PaidOrder(refunded) ==
    [NewOrder(RegularId) EXCEPT
       !.status = "confirmed",
       !.payment.razorpayPaymentId = "pay_1",
       !.payment.status = "paid",
       !.payment.paidAt = NewDate(0),
       !.refundAmount = refunded,
       !.refundStatus = IF refunded = 0 THEN "none" ELSE "completed"]

InitPaid ==
    /\ \E refunded \in {0, 1} :
          orders = [o \in OrderIds |-> IF o = RegularId THEN PaidOrder(refunded) ELSE NewOrder(o)]
    /\ processedEvents = [k \in {} |-> 0]
    /\ createOrderCalls = [o \in OrderIds |-> 0]
    /\ env \in Configs({ShiprocketSecret}, {RazorpaySecret})
    /\ now = 0
    /\ response = NoResponse
    /\ inflight = [r \in Requests |-> Idle]
    /\ service = NoCall

\* partial refunds of one rupee and a refund of the whole order
AccountingRefunds == Refunds \cup { RefundEntity("rfnd_3", "pay_1", OrderTotal * 100) }

AccountingEvents ==
    { RefundEvent(e, r, Absent) : e \in {"refund.created", "refund.processed"},
                                  r \in AccountingRefunds }

\* refunds of a paid order
AccountingNext == PaymentStep(AccountingEvents) \/ Tick

SpecAccounting == InitPaid /\ [][AccountingNext]_vars

\* payment events whose first handling may not take effect: the capture of a
\* payment whose order is not stored (yet), an event whose entity is missing
\* (the switch throws), and the capture of the regular order's payment
RedeliveredEvents ==
    { Event("payment.captured", PaymentEntity("pay_9", "order_" \o UnknownId), Absent),
      Event("payment.captured", PaymentEntity("pay_1", "order_" \o RegularId), Absent),
      Event("order.paid", Absent, [id |-> "order_" \o UnknownId]) }
    \cup BareEvents

RedeliveryNext == PaymentStep(RedeliveredEvents) \/ Tick

SpecRedelivery == InitConfigured /\ [][RedeliveryNext]_vars

\* the payment of an order reported by the webhook and by the checkout page
PaidAtNext ==
    \/ PaymentStep(FirstPaidEvents)
    \/ VerifyStep
    \/ Tick

SpecPaidAt == InitConfigured /\ [][PaidAtNext]_vars

(***************************************************************************)
(* Properties.                                                             *)
(***************************************************************************)
\* the webhook history an order holds
webhookHistory(o) ==
    IF orders[o].shiprocket = Absent THEN <<>> ELSE orders[o].shiprocket.webhookHistory

\* an order already holds this payload in its webhook history
AlreadyReceived(p) ==
    \E o \in OrderIds :
        \E i \in 1..Len(webhookHistory(o)) : webhookHistory(o)[i].payload = p

\* the order has a shipment: a stored shipment id or a stored tracking code
HasShipment(o) ==
    /\ orders[o].shiprocket # Absent
    /\ \/ orders[o].shiprocket.shipmentId # None
       \/ orders[o].shiprocket.awbCode # None

\* the token the webhook request presents is neither the shared secret nor its
\* Bearer form
WrongToken(h) ==
    LET token == IF h.xApiKey # None THEN h.xApiKey ELSE h.authorization
    IN  token \notin {ShiprocketSecret, "Bearer " \o ShiprocketSecret}

\* the step is a create-shipment call, by any of the three entry points, for order o
CreateCall(o) ==
    \E ty \in {"regular", "custom"} :
        /\ o \in Collection(ty)
        /\ \E shape \in CreateOrderShapes :
              \/ createShipment(Body(o, ty), shape)
              \/ assignCourier(Body(o, ty), shape)
              \/ createAutoShipment(o, ty, shape)

\* the Razorpay order an event is about
EventOrderId(e) == IF e.payment # Absent THEN e.payment.order_id ELSE e.order.id

\* the position of a status on pending -> confirmed -> processing -> shipped -> delivered
StatusRank(status) ==
    CASE status = "pending" -> 0
      [] status = "confirmed" -> 1
      [] status = "processing" -> 2
      [] status = "shipped" -> 3
      [] status = "delivered" -> 4
      [] OTHER -> -1

\* C1: when handleWebhook accepts a payload that an order already holds in its
\* webhookHistory (the same AWB and status delivered a second time), the step
\* changes no order (no second history entry, no new deliveredDate) and is
\* answered with success.
C1_SecondDeliveryIsNoOp ==
    [][\A h \in WebhookHeaders, p \in OneOrderPayloads :
          (~WrongToken(h) /\ AlreadyReceived(p) /\ handleWebhook(h, p))
             => (orders' = orders /\ response'.success)]_vars

\* C2: when an "In Transit" webhook arrives for an order with a shipment whose
\* last received webhook was "Delivered" and whose status is delivered, the
\* order's status stays delivered and the webhook is appended to the history.
C2_DeliveredThenInTransit ==
    [][\A h \in WebhookHeaders, p \in OneOrderPayloads, o \in OrderIds :
          ( /\ ~WrongToken(h)
            /\ p.status = "In Transit"
            /\ HasShipment(o)
            /\ LocateOrder(p) = o
            /\ orders[o].status = "delivered"
            /\ Len(webhookHistory(o)) > 0
            /\ webhookHistory(o)[Len(webhookHistory(o))].status = "Delivered"
            /\ handleWebhook(h, p) )
             => /\ orders'[o].status = "delivered"
                /\ Len(webhookHistory(o)') = Len(webhookHistory(o)) + 1
                /\ webhookHistory(o)'[Len(webhookHistory(o)')].status = "In Transit"]_vars

\* C3: a shipping webhook that arrives for an order whose status is cancelled or
\* delivered leaves order.status as it is and appends one webhookHistory entry.
C3_TerminalStatusIsFinal ==
    [][\A h \in WebhookHeaders, p \in OneOrderPayloads, o \in OrderIds :
          ( /\ ~WrongToken(h)
            /\ ~IsTestWebhook(p)
            /\ LocateOrder(p) = o
            /\ orders[o].status \in {"cancelled", "delivered"}
            /\ handleWebhook(h, p) )
             => /\ orders'[o].status = orders[o].status
                /\ Len(webhookHistory(o)') = Len(webhookHistory(o)) + 1]_vars

\* C4: no webhook of either provider moves order.status to an earlier position
\* of pending -> confirmed -> processing -> shipped -> delivered, and no such
\* webhook sets an order that is shipped, delivered or cancelled back to
\* confirmed.
C4_NoBackwardStatus ==
    [][\A o \in OrderIds :
          /\ (StatusRank(orders[o].status) >= 0 /\ StatusRank(orders'[o].status) >= 0)
                => StatusRank(orders'[o].status) >= StatusRank(orders[o].status)
          /\ orders[o].status \in {"shipped", "delivered", "cancelled"}
                => orders'[o].status # "confirmed"]_vars

\* C5: the provider's create-order operation succeeds at most once per order,
\* and a stored shipmentId or awbCode is never replaced by a different value.
C5_AtMostOneShipment ==
    [][\A o \in OrderIds :
          /\ createOrderCalls'[o] <= 1
          /\ HasShipment(o)
                => /\ orders'[o].shiprocket # Absent
                   /\ orders[o].shiprocket.shipmentId # None
                         => orders'[o].shiprocket.shipmentId = orders[o].shiprocket.shipmentId
                   /\ orders[o].shiprocket.awbCode # None
                         => orders'[o].shiprocket.awbCode = orders[o].shiprocket.awbCode]_vars

C7_PaidEventOnPaidOrderIsNoOp ==
    [][\A e \in PaidEvents, o \in OrderIds :
          ( /\ env.RAZORPAY_WEBHOOK_SECRET = RazorpaySecret
            /\ orders[o].payment.status = "paid"
            /\ EventOrderId(e) = orders[o].payment.razorpayOrderId
            /\ razorpayWebhook(TRUE, e) )
             => /\ orders'[o].payment.paidAt = orders[o].payment.paidAt
                /\ orders'[o].payment.razorpayPaymentId = orders[o].payment.razorpayPaymentId
                /\ orders'[o].payment.status = "paid"
                /\ orders'[o].status = orders[o].status
                /\ response'.code = 200
                /\ response'.success]_vars

\* C7 witness: an event handler has just met its already-paid guard, after the
\* clock has moved on from the moment of payment.
C7_Witness ==
    /\ response.op = "razorpayWebhook"
    /\ response.message = "Already processed"
    /\ now > 0
    /\ \E o \in OrderIds : orders[o].payment.status = "paid" /\ orders[o].payment.paidAt = NewDate(0)

\* C8: once payment.status is paid no step sets it to anything else, and a
\* payment.failed event for a paid order changes nothing on the order.
C8_PaidNeverRegresses ==
    [][\A o \in OrderIds :
          orders[o].payment.status = "paid"
             => /\ orders'[o].payment.status = "paid"
                /\ \A v \in BOOLEAN, p \in PaymentEntities :
                      ( /\ p.order_id = orders[o].payment.razorpayOrderId
                        /\ razorpayWebhook(v, Event("payment.failed", p, Absent)) )
                         => orders'[o] = orders[o]]_vars

\* C8 witness: a payment.failed event has just been ignored for a paid order.
C8_Witness ==
    /\ response.op = "razorpayWebhook"
    /\ response.message = "Order already paid, ignoring failure"
    /\ \E o \in OrderIds : orders[o].payment.status = "paid"

\* C9: with the webhook secret configured, a correctly signed payment.captured
\* event for an order whose payment is pending sets order.status to confirmed, payment.status to paid and
\* payment.paidAt; the same event sent again to the order it has paid changes
\* no order.
C9_CapturedConfirmsOnce ==
    [][\A p \in PaymentEntities, o \in OrderIds :
          ( /\ env.RAZORPAY_WEBHOOK_SECRET = RazorpaySecret
            /\ p.order_id = orders[o].payment.razorpayOrderId
            /\ razorpayWebhook(TRUE, Event("payment.captured", p, Absent)) )
             => /\ orders[o].payment.status = "pending"
                      => /\ orders'[o].status = "confirmed"
                         /\ orders'[o].payment.status = "paid"
                         /\ orders'[o].payment.paidAt = NewDate(p.created_at * 1000)
                /\ ( /\ orders[o].payment.status = "paid"
                     /\ orders[o].payment.razorpayPaymentId = p.id )
                      => orders' = orders]_vars

\* C9 witness: payment.captured for pay_1 is the only event processed, it has
\* paid and confirmed the order, and its resend has just been answered as a
\* duplicate.
C9_Witness ==
    /\ DOMAIN processedEvents = {"payment.captured-pay_1"}
    /\ response.message = "Event already processed"
    /\ orders[RegularId].status = "confirmed"
    /\ orders[RegularId].payment.status = "paid"
    /\ orders[RegularId].payment.razorpayPaymentId = "pay_1"
    /\ orders[RegularId].payment.paidAt = NewDate(0)

\* C10: a shipping webhook whose token is neither the configured secret nor its
\* Bearer form is answered with 401, and writes no order (no webhookHistory
\* entry, no order field) and no ledger record.
C10_WrongTokenRejected ==
    [][\A h \in WebhookHeaders, p \in OneOrderPayloads :
          (WrongToken(h) /\ handleWebhook(h, p))
             => /\ response'.code = 401
                /\ ~response'.success
                /\ orders' = orders
                /\ processedEvents' = processedEvents
                /\ createOrderCalls' = createOrderCalls]_vars

\* C10 witness: a webhook has just been answered 401 while an order holds
\* webhook history and a shipment.
C10_Witness ==
    /\ response.op = "handleWebhook"
    /\ response.code = 401
    /\ \E o \in OrderIds : HasShipment(o) /\ Len(webhookHistory(o)) > 0

\* C11: handleWebhook answers a request whose token is wrong with 401 and every
\* other request with HTTP 200, whether or not the order is found and the
\* lookup succeeds.
C11_AlwaysOk ==
    [][\A h \in WebhookHeaders, p \in OneOrderPayloads :
          handleWebhook(h, p) => response'.code = IF WrongToken(h) THEN 401 ELSE 200]_vars

\* C12: razorpayWebhook answers every request with HTTP 200, except one whose
\* signature does not verify, which it answers with 400; it never answers 5xx.
C12_NeverServerError ==
    [][\A v \in BOOLEAN, e \in RazorpayEvents :
          razorpayWebhook(v, e) => response'.code = IF v THEN 200 ELSE 400]_vars

\* C13: a payment webhook whose signature does not verify is rejected (400, or
\* 500 when no webhook secret is configured) and touches nothing: the
\* processedEvents ledger and every order stay as they were.
C13_BadSignatureTouchesNothing ==
    [][\A e \in RazorpayEvents :
          razorpayWebhook(FALSE, e)
             => /\ response'.code \in {400, 500}
                /\ ~response'.success
                /\ processedEvents' = processedEvents
                /\ orders' = orders]_vars

\* C13 witness: a webhook has just been refused for its signature while the
\* ledger holds an event and an order is still unpaid.
C13_Witness ==
    /\ response.op = "razorpayWebhook"
    /\ response.code = 400
    /\ response.message = "Invalid signature"
    /\ DOMAIN processedEvents # {}
    /\ \E o \in OrderIds : orders[o].payment.status = "pending"

\* the status matches none of the patterns handleWebhook looks for
Unmapped(status) ==
    \A pattern \in {"delivered", "transit", "pickup", "out for delivery",
                    "rto", "return", "cancelled"} :
        ~includes(toLowerCase(status), pattern)

\* C14: a webhook whose raw status matches no pattern of the mapping (for example
\* "Customs Hold") stores the raw string in order.shiprocket.status, appends
\* one entry to the webhook history and leaves order.status as it was.
C14_UnmappedStatusKeepsOrderStatus ==
    [][\A p \in PayloadsFor(RegularId, MappingStatuses) :
          (Unmapped(p.status) /\ handleWebhook(Header(ShiprocketSecret, None), p))
             => /\ orders'[RegularId].status = orders[RegularId].status
                /\ orders'[RegularId].shiprocket.status = p.status
                /\ orders'[RegularId].shiprocket.webhookHistory
                      = Append(webhookHistory(RegularId),
                               [status |-> p.status, payload |-> p,
                                receivedAt |-> NewDate(now)])]_vars

\* C14 witness: "Customs Hold" has arrived for an order that was already
\* delivered, and the order is still delivered.
C14_Witness ==
    /\ orders[RegularId].status = "delivered"
    /\ orders[RegularId].shiprocket # Absent
    /\ orders[RegularId].shiprocket.status = "Customs Hold"
    /\ Len(webhookHistory(RegularId)) >= 2
    /\ webhookHistory(RegularId)[Len(webhookHistory(RegularId))].status = "Customs Hold"

\* C15: a webhook whose status contains the cancellation pattern sets
\* order.status to cancelled, also when the status contains a shipping pattern
\* too (for example "Cancelled in Transit").
C15_CancelledWins ==
    [][\A p \in PayloadsFor(RegularId, MappingStatuses) :
          (/\ includes(toLowerCase(p.status), "cancelled")
           /\ handleWebhook(Header(ShiprocketSecret, None), p))
             => orders'[RegularId].status = "cancelled"]_vars

\* C16: shiprocket.deliveredDate is stamped once: a delivered webhook for an
\* order whose delivery date is already set appends to the webhook history and
\* leaves the date as it is.
C16_DeliveredDateStampedOnce ==
    [][\A h \in WebhookHeaders, p \in OneOrderPayloads :
          (/\ orders[RegularId].shiprocket # Absent
           /\ orders[RegularId].shiprocket.deliveredDate # None
           /\ includes(toLowerCase(p.status), "delivered")
           /\ handleWebhook(h, p)
           /\ response'.message = "Webhook processed successfully")
             => /\ Len(orders'[RegularId].shiprocket.webhookHistory)
                      = Len(webhookHistory(RegularId)) + 1
                /\ orders'[RegularId].shiprocket.deliveredDate
                      = orders[RegularId].shiprocket.deliveredDate]_vars

\* the order has a tracking code
HasAwb(o) == orders[o].shiprocket # Absent /\ orders[o].shiprocket.awbCode # None

\* C17: for every raw status and every prior state of an order that has a
\* tracking code, a tracking query that reports the status leaves order.status
\* as a webhook carrying the same status would.
C17_TrackingAgreesWithWebhook ==
    [][\A st \in TrackStatuses :
          (/\ HasAwb(RegularId)
           /\ trackShipment(RegularId, "regular", TrackOutcome(TRUE, TRUE, st)))
             => orders'[RegularId].status
                  = ApplyWebhook(orders[RegularId],
                                 Payload(AwbOf(RegularId, 1), "ORD-" \o RegularId, st),
                                 now).status]_vars

\* C18: a tracking query that reports "In Transit" or "Out for Delivery" for
\* an order that is delivered or cancelled leaves order.status as it is.
C18_TrackingNeverRegresses ==
    [][\A st \in {"In Transit", "Out for Delivery"} :
          (/\ orders[RegularId].status \in {"delivered", "cancelled"}
           /\ trackShipment(RegularId, "regular", TrackOutcome(TRUE, TRUE, st)))
             => orders'[RegularId].status = orders[RegularId].status]_vars

\* C19: when the provider's tracking call fails for an order that has a
\* tracking code, trackShipment still answers successfully, with the last
\* known state flagged stale: true, and leaves the order unmodified.
C19_ProviderFailureReturnsStale ==
    [][(/\ HasAwb(RegularId)
        /\ trackShipment(RegularId, "regular", TrackOutcome(FALSE, FALSE, None)))
          => /\ orders' = orders
             /\ response'.code = 200
             /\ response'.success
             /\ "stale" \in DOMAIN response'.data
             /\ response'.data.stale]_vars

\* the order holds no provider shipment id
NoShipmentId(o) ==
    orders[o].shiprocket = Absent \/ orders[o].shiprocket.shipmentId = None

\* C20: assignCourier, requestPickup and cancelShipment, called for an order
\* that holds no provider shipment id, each answer 400, call the provider for
\* no new shipment and leave the order unchanged.
C20_RequiresPriorShipment ==
    [][\A o \in OrderIds, ty \in {"regular", "custom"} :
          (/\ o \in Collection(ty)
           /\ NoShipmentId(o)
           /\ \/ \E shape \in CreateOrderShapes : assignCourier(Body(o, ty), shape)
              \/ \E ok \in BOOLEAN : requestPickup(PickupBody(o, ty), ok)
              \/ \E ok \in BOOLEAN :
                    cancelShipment([orderId |-> o, orderType |-> ty,
                                    reason |-> "Customer request"], ok))
             => /\ response'.code = 400
                /\ orders' = orders
                /\ createOrderCalls' = createOrderCalls]_vars

\* the shipment ids of the orders of a batch that hold one
RECURSIVE ShipmentIdsIn(_, _)
ShipmentIdsIn(orderIds, orderType) ==
    IF orderIds = <<>> THEN {}
    ELSE ShipmentIdsIn(Tail(orderIds), orderType)
         \cup (IF Head(orderIds) \in Collection(orderType) /\ ~NoShipmentId(Head(orderIds))
               THEN {orders[Head(orderIds)].shiprocket.shipmentId} ELSE {})

\* C21: generateLabel over a batch in which some order has a shipment answers
\* 200 and requests the labels of exactly the shipments the batch holds,
\* whatever the other ids of the batch are: unknown, malformed or without a
\* shipment.
C21_PartialSuccessPerOrder ==
    [][\A ids \in LabelBatches :
          (/\ ShipmentIdsIn(ids, "regular") # {}
           /\ generateLabel(LabelBody(ids, "regular"), TRUE))
             => /\ response'.code = 200
                /\ "shipmentIds" \in DOMAIN response'.data
                /\ { response'.data.shipmentIds[i] : i \in 1..Len(response'.data.shipmentIds) }
                      = ShipmentIdsIn(ids, "regular")]_vars

\* C22: createShipment for an order whose combined shipping address is shorter
\* than MinAddressLength answers 400 with the address-requirements message and
\* calls the provider for no shipment, whatever the postal code is.
C22_ShortAddressRejected ==
    [][\A b \in ValidBodies, shape \in CreateOrderShapes :
          (/\ Len(orders[b.orderId].shippingAddress.address1) < MinAddressLength
           /\ ~HasShipment(b.orderId)
           /\ createShipment(b, shape))
             => /\ response'.code = 400
                /\ response'.message = "Shipping address does not meet Shiprocket requirements"
                /\ createOrderCalls' = createOrderCalls
                /\ orders' = orders]_vars

\* C23: refundStatus moves along none -> processing -> completed | failed only:
\* no step takes it from completed or failed to another value, and none takes it
\* to completed or failed from anything but processing.
C23_RefundStatusTransitions ==
    [][\A o \in OrderIds :
          \/ orders'[o].refundStatus = orders[o].refundStatus
          \/ orders[o].refundStatus = "none" /\ orders'[o].refundStatus = "processing"
          \/ /\ orders[o].refundStatus = "processing"
             /\ orders'[o].refundStatus \in {"completed", "failed"}]_vars

\* C24: the webhook history of an order is append-only: after every step the
\* history the order held before is a prefix of the history it holds.
C24_HistoryAppendOnly ==
    [][\A o \in OrderIds :
          LET old == webhookHistory(o)
              new == IF orders'[o].shiprocket = Absent THEN <<>>
                     ELSE orders'[o].shiprocket.webhookHistory
          IN  /\ Len(new) >= Len(old)
              /\ SubSeq(new, 1, Len(old)) = old]_vars

\* the webhook names a waybill and an order reference, and no order carries the
\* waybill or has the reference, its prefix stripped, as id
MatchesNoOrder(p) ==
    /\ p.awb_code # None
    /\ p.order_id # None
    /\ \A o \in OrderIds : ~HasAwb(o) \/ orders[o].shiprocket.awbCode # p.awb_code
    /\ StripOrderPrefix(p.order_id) \notin OrderIds

\* C25 as stated: every webhook whose waybill and order reference match no
\* order is answered with an error status and changes no order.
C25_UnmatchedRejected ==
    [][\A p \in UnmatchedPayloads :
          (MatchesNoOrder(p) /\ handleWebhook(Header(ShiprocketSecret, None), p))
             => /\ response'.code \in {404, 500}
                /\ ~response'.success
                /\ orders' = orders]_vars

\* C25 amended: a webhook whose waybill and order reference match no order, and
\* neither of which is the word test, is answered with an error status (404, or
\* 500 when the reference is no ObjectId) and changes no order.
C25_UnmatchedRejectedUnlessTest ==
    [][\A p \in UnmatchedPayloads :
          (/\ MatchesNoOrder(p)
           /\ p.awb_code # "test"
           /\ p.order_id # "test"
           /\ handleWebhook(Header(ShiprocketSecret, None), p))
             => /\ response'.code \in {404, 500}
                /\ ~response'.success
                /\ orders' = orders]_vars

\* C25 witness: a webhook has just been answered 404 while an order holds a
\* shipment and a webhook history.
C25_Witness ==
    /\ response.op = "handleWebhook"
    /\ response.code = 404
    /\ response.message = "Order not found"
    /\ HasAwb(RegularId)
    /\ Len(webhookHistory(RegularId)) > 0

\* C26: for an order with a shipment, each webhook of the course "In Transit",
\* "Out for Delivery", "Delivered" sets order.status to shipped, shipped and
\* delivered respectively, mirrors the raw status into shiprocket.status,
\* records the delivered date on "Delivered" only, and appends one entry to the
\* webhook history, so that the entries stand in receipt order.
C26_DeliveryCourse ==
    [][\A p \in PayloadsFor(RegularId, DeliveryStatuses) :
          (HasShipment(RegularId) /\ handleWebhook(Header(ShiprocketSecret, None), p))
             => /\ orders'[RegularId].status
                      = (IF p.status = "Delivered" THEN "delivered" ELSE "shipped")
                /\ orders'[RegularId].shiprocket.status = p.status
                /\ orders'[RegularId].shiprocket.deliveredDate
                      = (IF p.status = "Delivered" THEN NewDate(now)
                         ELSE orders[RegularId].shiprocket.deliveredDate)
                /\ orders'[RegularId].shiprocket.webhookHistory
                      = Append(webhookHistory(RegularId),
                               [status |-> p.status, payload |-> p,
                                receivedAt |-> NewDate(now)])]_vars

\* C26 witness: the three webhooks have arrived in order for an order with a
\* shipment, which is now delivered.
C26_Witness ==
    /\ HasShipment(RegularId)
    /\ Len(webhookHistory(RegularId)) = 3
    /\ webhookHistory(RegularId)[1].status = "In Transit"
    /\ webhookHistory(RegularId)[2].status = "Out for Delivery"
    /\ webhookHistory(RegularId)[3].status = "Delivered"
    /\ orders[RegularId].status = "delivered"
    /\ orders[RegularId].shiprocket.status = "Delivered"
    /\ orders[RegularId].shiprocket.deliveredDate = webhookHistory(RegularId)[3].receivedAt

\* the logical event a delivery is about: its type and the id of the entity the
\* type names (the refund of refund.*, the payment of payment.*, the order of
\* order.*)
LogicalEvent(e) ==
    <<e.event,
      IF startsWith(e.event, "refund.")
      THEN (IF e.refund = Absent THEN None ELSE e.refund.id)
      ELSE IF startsWith(e.event, "payment.")
      THEN (IF e.payment = Absent THEN None ELSE e.payment.id)
      ELSE (IF e.order = Absent THEN None ELSE e.order.id)>>

\* C27: event keys are stable and distinct: a delivery at an earlier time t and
\* a delivery now get the same key exactly when they are deliveries of the same
\* logical event.
C27_KeysStableAndDistinct ==
    \A e1, e2 \in CaptureEvents \cup RefundEvents \cup BareEvents :
        \A t \in 0..now :
            (LogicalEvent(e1) = LogicalEvent(e2)) <=> (eventKey(e1, t) = eventKey(e2, now))

\* C28: no step removes a key from processedEvents, or changes its timestamp,
\* before EVENT_CACHE_TTL has elapsed since the key was recorded; and every
\* redelivery of an event less than EVENT_CACHE_TTL after its first receipt,
\* at time t, is answered as a duplicate and changes nothing.
C28_LedgerLifetime ==
    [][/\ \A k \in DOMAIN processedEvents :
             now - processedEvents[k] < EVENT_CACHE_TTL
                => /\ k \in DOMAIN processedEvents'
                   /\ processedEvents'[k] = processedEvents[k]
       /\ \A e \in LedgerEvents, t \in 0..now :
             (/\ now - t < EVENT_CACHE_TTL
              /\ eventKey(e, t) \in DOMAIN processedEvents
              /\ processedEvents[eventKey(e, t)] = t
              /\ razorpayWebhook(TRUE, e))
                => /\ response'.message = "Event already processed"
                   /\ orders' = orders
                   /\ processedEvents' = processedEvents]_vars

\* another delivery of the event has passed the duplicate check: it is in its
\* event handler
InHandler(r, e) ==
    \E q \in Requests \ {r} : inflight[q].stage = "dispatched" /\ inflight[q].event = e

\* C29: check-and-mark is atomic: while a delivery of a payment event is in its
\* event handler, suspended at an await, every other delivery of the same event
\* is answered as a duplicate and reaches no event handler.
C29_CheckAndMarkAtomic ==
    [][\A r \in Requests, e \in ConcurrentEvents :
          (InHandler(r, e) /\ razorpayBegin(r, TRUE, e))
             => /\ response'.message = "Event already processed"
                /\ inflight'[r] = Idle
                /\ processedEvents' = processedEvents
                /\ orders' = orders]_vars

\* C29 witness: a second delivery has just been answered as a duplicate while
\* the first is still in its event handler.
C29_Witness ==
    /\ response.message = "Event already processed"
    /\ \E q \in Requests :
          /\ inflight[q].stage = "dispatched"
          /\ DOMAIN processedEvents = {eventKey(inflight[q].event, now)}
    /\ \A o \in OrderIds : orders[o].payment.status = "pending"

\* C30: concurrent shipping webhooks lose no update: whenever a handler saves,
\* the order keeps every history entry it held and gains the entry of this
\* webhook, once.
C30_NoLostUpdate ==
    [][\A r \in Requests :
          webhookSave(r)
             => LET o == inflight[r].order
                    p == inflight[r].payload
                    entry == inflight[r].doc.shiprocket.webhookHistory[
                                 Len(inflight[r].doc.shiprocket.webhookHistory)]
                IN  /\ entry.payload = p
                    /\ orders'[o].shiprocket.webhookHistory
                          = Append(webhookHistory(o), entry)]_vars

\* C31: concurrent create-shipment requests create at most one shipment at the
\* provider: whenever a request stores the shipment the provider created, it is
\* the only shipment created for the order and the order had none stored.
C31_OneShipmentUnderConcurrency ==
    [][\A r \in Requests :
          (createFinish(r) /\ inflight[r].payload.shape # "error")
             => /\ createOrderCalls'[inflight[r].order] <= 1
                /\ ~HasShipment(inflight[r].order)]_vars

\* C32: request makes at most 3 attempts and has ended after the third; an
\* attempt is followed by another only after 429, 500, 502, 503, 504 or no
\* response, or after a 401 on the first attempt; every other 4xx is thrown at once.
C32_BoundedRetry ==
    [][(service.op = "request" /\ service'.attempts > service.attempts)
          => LET status == service'.trace[Len(service'.trace)]
             IN  /\ service'.attempts <= 3
                 /\ service'.attempts = 3 => service'.stage = "done"
                 /\ service'.stage = "attempting"
                       => \/ status \in {429, 500, 502, 503, 504, 0}
                          \/ status = 401 /\ service.attempts = 0
                 /\ status \in {400, 403, 404, 422}
                       => service'.stage = "done" /\ service'.result = "thrown"
                 /\ (status = 401 /\ service.attempts > 0)
                       => service'.stage = "done" /\ service'.result = "thrown"]_vars

\* C32 witness: a call that met a 401, re-authenticated, then met two transient
\* failures and threw after its third attempt.
C32_Witness ==
    /\ service.op = "request"
    /\ service.stage = "done"
    /\ service.result = "thrown"
    /\ service.trace = <<401, 503, 429>>

\* C33: createOrder submits the create-order call at most twice, and a retry
\* with the corrected pickup location that does not create the order ends the
\* call with an error.
C33_OneExtraAttempt ==
    [][(service.op = "createOrder" /\ service'.attempts > service.attempts)
          => /\ service'.attempts <= 2
             /\ service.attempts = 1
                   => /\ service.trace[1] \in {"pickupMatch", "pickupData"}
                      /\ service'.stage = "done"
                      /\ service'.trace[2] # "created" => service'.result = "thrown"]_vars

\* C33 witness: the provider rejected the pickup location twice and the call
\* ended with an error after its second submission.
C33_Witness ==
    /\ service.op = "createOrder"
    /\ service.trace = <<"pickupMatch", "pickupMatch">>
    /\ service.stage = "done"
    /\ service.result = "thrown"

\* C38: a create-shipment request without a weight, or with a weight between
\* 0.05 kg and 1 kg, makes createOrder send that weight (0.15 kg by default).
C38_WeightPreserved ==
    [][\A w \in RawWeights :
          ((w = 0 \/ (w >= 50 /\ w <= 1000)) /\ createOrderCall(w))
             => service'.sent = (IF w = 0 THEN 150 ELSE w)]_vars

\* C34: the order reference is tried before the AWB: a webhook whose order
\* reference names order a while its AWB is stored on another order b is applied
\* to a (its status is mirrored there and its history grows) and b is untouched.
C34_ReferenceBeforeAwb ==
    [][\A a \in OrderIds, b \in OrderIds, s \in {"In Transit", "Delivered"} :
          (/\ a # b
           /\ orders[b].shiprocket # Absent
           /\ orders[b].shiprocket.awbCode = AwbOf(b, 1)
           /\ handleWebhook(Header(ShiprocketSecret, None),
                            Payload(AwbOf(b, 1), OrderRefOf(a), s)))
             => /\ orders'[b] = orders[b]
                /\ orders'[a].shiprocket # Absent
                /\ orders'[a].shiprocket.status = s
                /\ Len(orders'[a].shiprocket.webhookHistory) = Len(webhookHistory(a)) + 1]_vars

\* C35: in every configuration, a shipping webhook that carries no token or a
\* token other than the shared secret is answered 401 and changes no order.
C35_MutationNeedsToken ==
    [][\A h \in {Header(None, None), Header("wrong-token", None)}, p \in OneOrderPayloads :
          handleWebhook(h, p)
             => /\ response'.code = 401
                /\ orders' = orders]_vars

\* C36: a provider call that throws or reports failure leaves the order as it
\* was, in cancelShipment, in createShipment and in trackShipment.
C36_FailedCallChangesNothing ==
    [][/\ \A b \in CancelBodies, outcome \in {"failure", "throws"} :
             cancelShipmentWith(b, outcome) => orders' = orders
       /\ \A b \in ValidBodies : createShipment(b, "error") => orders' = orders
       /\ \A id \in TrackIdentifiers, ty \in {"regular", "custom"}, outcome \in TrackOutcomes :
             ((~outcome.ok \/ ~outcome.found) /\ trackShipment(id, ty, outcome))
                => orders' = orders]_vars

\* C37: refundAmount grows only by the amount of a handled refund.created event;
\* payment.status becomes refunded only while a refund.processed event is handled
\* and refundAmount is at least the order total; a processed partial refund
\* leaves payment.status as it was.
C37_RefundAccounting ==
    [][\A o \in OrderIds :
          /\ orders'[o].refundAmount # orders[o].refundAmount
                => /\ response'.message = "Refund recorded"
                   /\ \E r \in AccountingRefunds :
                         /\ r.payment_id = orders[o].payment.razorpayPaymentId
                         /\ orders'[o].refundAmount = orders[o].refundAmount + r.amount \div 100
          /\ (orders'[o].payment.status = "refunded" /\ orders[o].payment.status # "refunded")
                => /\ response'.message = "Refund completed"
                   /\ orders[o].refundAmount >= orders[o].total
          /\ (response'.message = "Refund completed" /\ orders[o].refundAmount < orders[o].total)
                => orders'[o].payment.status = orders[o].payment.status]_vars

\* C37 witness: two partial refunds add up to the order total and the processed
\* refund has marked the payment refunded.
C37_Witness ==
    /\ response.message = "Refund completed"
    /\ orders[RegularId].payment.status = "refunded"
    /\ orders[RegularId].refundAmount = OrderTotal
    /\ "refund.created-rfnd_2" \in DOMAIN processedEvents

\* C39: an event whose first handling did not take effect is handled again when
\* it is redelivered: a correctly signed event that is in the ledger and whose
\* order is not stored is passed to its event handler (which answers Order not
\* found again), not dropped as a duplicate.
C39_FailedEventHandledAgain ==
    [][\A e \in RedeliveredEvents :
          (/\ e.payment # Absent \/ e.order # Absent
           /\ \A o \in OrderIds : orders[o].payment.razorpayOrderId # EventOrderId(e)
           /\ eventKey(e, now) \in DOMAIN processedEvents
           /\ razorpayWebhook(TRUE, e))
             => response'.message # "Event already processed"]_vars

\* C40: payment.paidAt is written at most once per order: once it is set, no
\* step changes it.
C40_PaidAtWrittenOnce ==
    [][\A o \in OrderIds :
          orders[o].payment.paidAt # None
             => orders'[o].payment.paidAt = orders[o].payment.paidAt]_vars
====
